---- MODULE Spec2Model ----
(***************************************************************************)
(* Model of openinference-rs: the TraceConfig privacy configuration        *)
(* (openinference-instrumentation/src/config.rs), the span builders and    *)
(* the post-hoc recording functions                                        *)
(* (openinference-instrumentation/src/span_builder.rs) and the attribute   *)
(* vocabulary (openinference-semantic-conventions/src).                    *)
(*                                                                         *)
(* Strings that the code parses (environment values) are sequences of      *)
(* one-character strings, so that to_lowercase and the integer parse are   *)
(* computed character by character.  Strings that the code only copies     *)
(* (names, contents, attribute keys) are TLA+ strings.                     *)
(* Option<T> is a sequence of length 0 (None) or 1 (Some).                 *)
(***************************************************************************)
EXTENDS Integers, Sequences, FiniteSets, TLC

VARIABLES
    env,      \* process environment: variable name -> Option<value>
    tcb,      \* the TraceConfigBuilder being staged
    cfg,      \* Option<TraceConfig>: the configuration snapshot, and the one
              \* last handed to a span builder
    how,      \* how cfg was constructed
    derived,  \* Option<answers of the should_hide_* queries on cfg>
    b,        \* Option<span builder record>
    span,     \* Option<[name, attrs]>: the span handed to the sink
    calls     \* the recording calls made on the span, most recent last

vars == <<env, tcb, cfg, how, derived, b, span, calls>>

None == <<>>
Some(v) == <<v>>
IsSome(o) == o # <<>>
Unwrap(o) == o[1]
unwrap_or(o, d) == IF IsSome(o) THEN Unwrap(o) ELSE d

(***************************************************************************)
(* Bounds of the model.                                                    *)
(***************************************************************************)
\* environment variables set plus TraceConfigBuilder overrides made
MaxSettings == 2

(***************************************************************************)
(* config.rs: constants                                                    *)
(***************************************************************************)
REDACTED == "__REDACTED__"

\* the constants ENV_HIDE_INPUTS .. ENV_BASE64_IMAGE_MAX_LENGTH, as ENV.HIDE_INPUTS ..
ENV ==
    [ HIDE_INPUTS |-> "OPENINFERENCE_HIDE_INPUTS",
      HIDE_OUTPUTS |-> "OPENINFERENCE_HIDE_OUTPUTS",
      HIDE_INPUT_MESSAGES |-> "OPENINFERENCE_HIDE_INPUT_MESSAGES",
      HIDE_OUTPUT_MESSAGES |-> "OPENINFERENCE_HIDE_OUTPUT_MESSAGES",
      HIDE_INPUT_IMAGES |-> "OPENINFERENCE_HIDE_INPUT_IMAGES",
      HIDE_INPUT_TEXT |-> "OPENINFERENCE_HIDE_INPUT_TEXT",
      HIDE_OUTPUT_TEXT |-> "OPENINFERENCE_HIDE_OUTPUT_TEXT",
      HIDE_LLM_INVOCATION_PARAMETERS |-> "OPENINFERENCE_HIDE_LLM_INVOCATION_PARAMETERS",
      HIDE_EMBEDDING_VECTORS |-> "OPENINFERENCE_HIDE_EMBEDDING_VECTORS",
      HIDE_EMBEDDINGS_VECTORS |-> "OPENINFERENCE_HIDE_EMBEDDINGS_VECTORS",
      HIDE_EMBEDDINGS_TEXT |-> "OPENINFERENCE_HIDE_EMBEDDINGS_TEXT",
      HIDE_PROMPTS |-> "OPENINFERENCE_HIDE_PROMPTS",
      HIDE_CHOICES |-> "OPENINFERENCE_HIDE_CHOICES",
      BASE64_IMAGE_MAX_LENGTH |-> "OPENINFERENCE_BASE64_IMAGE_MAX_LENGTH" ]

DEFAULT_BASE64_IMAGE_MAX_LENGTH == 32000

EnvVars == { ENV[k] : k \in DOMAIN ENV }

\* the thirteen hide switches of TraceConfig, in declaration order
HideFields ==
    { "hide_inputs", "hide_outputs", "hide_input_messages",
      "hide_output_messages", "hide_input_images", "hide_input_text",
      "hide_output_text", "hide_llm_invocation_parameters",
      "hide_embedding_vectors", "hide_embeddings_vectors",
      "hide_embeddings_text", "hide_prompts", "hide_choices" }

BoolFields == HideFields \cup { "emit_gen_ai_attributes" }

ConfigFields == BoolFields \cup { "base64_image_max_length" }

(***************************************************************************)
(* Environment values the model draws from (as the tests of config.rs do): *)
(* "true", "TRUE", "1", "false", "0", "not_a_bool", "16000", "-1".         *)
(***************************************************************************)
EnvValues ==
    { <<"t","r","u","e">>, <<"T","R","U","E">>, <<"1">>,
      <<"f","a","l","s","e">>, <<"0">>,
      <<"n","o","t","_","a","_","b","o","o","l">>,
      <<"1","6","0","0","0">>, <<"-","1">> }

\* usize values given to TraceConfigBuilder::base64_image_max_length
UsizeValues == { 0, 16000 }

(***************************************************************************)
(* str::to_lowercase on the ASCII range                                    *)
(***************************************************************************)
to_lowercase_char(c) ==
    LET UpperCase ==
          <<"A","B","C","D","E","F","G","H","I","J","K","L","M",
            "N","O","P","Q","R","S","T","U","V","W","X","Y","Z">>
        LowerCase ==
          <<"a","b","c","d","e","f","g","h","i","j","k","l","m",
            "n","o","p","q","r","s","t","u","v","w","x","y","z">>
    IN  IF \E i \in DOMAIN UpperCase : UpperCase[i] = c
        THEN LowerCase[CHOOSE i \in DOMAIN UpperCase : UpperCase[i] = c]
        ELSE c

to_lowercase(s) == [i \in DOMAIN s |-> to_lowercase_char(s[i])]

(***************************************************************************)
(* <usize as FromStr>::from_str: an optional leading "+", then one or more *)
(* decimal digits.  Every value of the model is far below usize::MAX, so   *)
(* the overflow error of the parse is not reachable here.                  *)
(***************************************************************************)
Digits == <<"0","1","2","3","4","5","6","7","8","9">>

DigitValue(c) == (CHOOSE i \in DOMAIN Digits : Digits[i] = c) - 1

RECURSIVE ParseDigits(_, _)
ParseDigits(s, acc) ==
    IF s = <<>> THEN acc
    ELSE ParseDigits(Tail(s), acc * 10 + DigitValue(Head(s)))

\* Ok(n) is Some(n); Err(_) is None
parse_usize(s) ==
    LET digits == IF s # <<>> /\ Head(s) = "+" THEN Tail(s) ELSE s
    IN  IF digits = <<>> \/ \E i \in DOMAIN digits : digits[i] \notin { Digits[d] : d \in DOMAIN Digits }
        THEN None
        ELSE Some(ParseDigits(digits, 0))

(***************************************************************************)
(* config.rs: env parsing helpers.  e is the environment; env::var(key)    *)
(* is e[key], None when the variable is not present.                       *)
(***************************************************************************)
\* parse_bool_env comparing the raw value, without to_lowercase
parse_bool_env_case_sensitive(e, key, default) ==
    IF IsSome(e[key])
    THEN LET val == Unwrap(e[key])
         IN  IF val = <<"t","r","u","e">> \/ val = <<"1">> THEN TRUE
             ELSE IF val = <<"f","a","l","s","e">> \/ val = <<"0">> THEN FALSE
             ELSE default
    ELSE default

parse_bool_env(e, key, default) ==
    IF IsSome(e[key])
    THEN LET val == to_lowercase(Unwrap(e[key]))
         IN  IF val = <<"t","r","u","e">> \/ val = <<"1">> THEN TRUE
             ELSE IF val = <<"f","a","l","s","e">> \/ val = <<"0">> THEN FALSE
             ELSE default
    ELSE default

\* parse_usize_env with unwrap_or_default in place of unwrap_or(default)
parse_usize_env_or_zero(e, key, default) ==
    IF IsSome(e[key])
    THEN unwrap_or(parse_usize(Unwrap(e[key])), 0)
    ELSE default

parse_usize_env(e, key, default) ==
    IF IsSome(e[key])
    THEN unwrap_or(parse_usize(Unwrap(e[key])), default)
    ELSE default

(***************************************************************************)
(* config.rs: TraceConfig                                                  *)
(***************************************************************************)
TraceConfig_default ==
    [ hide_inputs |-> FALSE,
      hide_outputs |-> FALSE,
      hide_input_messages |-> FALSE,
      hide_output_messages |-> FALSE,
      hide_input_images |-> FALSE,
      hide_input_text |-> FALSE,
      hide_output_text |-> FALSE,
      hide_llm_invocation_parameters |-> FALSE,
      hide_embedding_vectors |-> FALSE,
      hide_embeddings_vectors |-> FALSE,
      hide_embeddings_text |-> FALSE,
      hide_prompts |-> FALSE,
      hide_choices |-> FALSE,
      base64_image_max_length |-> DEFAULT_BASE64_IMAGE_MAX_LENGTH,
      emit_gen_ai_attributes |-> TRUE ]

\* from_env starting from a configuration with the gen_ai attributes off
from_env_without_gen_ai(e) ==
    [ hide_inputs |-> parse_bool_env(e, ENV.HIDE_INPUTS, FALSE),
      hide_outputs |-> parse_bool_env(e, ENV.HIDE_OUTPUTS, FALSE),
      hide_input_messages |-> parse_bool_env(e, ENV.HIDE_INPUT_MESSAGES, FALSE),
      hide_output_messages |-> parse_bool_env(e, ENV.HIDE_OUTPUT_MESSAGES, FALSE),
      hide_input_images |-> parse_bool_env(e, ENV.HIDE_INPUT_IMAGES, FALSE),
      hide_input_text |-> parse_bool_env(e, ENV.HIDE_INPUT_TEXT, FALSE),
      hide_output_text |-> parse_bool_env(e, ENV.HIDE_OUTPUT_TEXT, FALSE),
      hide_llm_invocation_parameters |->
          parse_bool_env(e, ENV.HIDE_LLM_INVOCATION_PARAMETERS, FALSE),
      hide_embedding_vectors |-> parse_bool_env(e, ENV.HIDE_EMBEDDING_VECTORS, FALSE),
      hide_embeddings_vectors |-> parse_bool_env(e, ENV.HIDE_EMBEDDINGS_VECTORS, FALSE),
      hide_embeddings_text |-> parse_bool_env(e, ENV.HIDE_EMBEDDINGS_TEXT, FALSE),
      hide_prompts |-> parse_bool_env(e, ENV.HIDE_PROMPTS, FALSE),
      hide_choices |-> parse_bool_env(e, ENV.HIDE_CHOICES, FALSE),
      base64_image_max_length |->
          parse_usize_env(e, ENV.BASE64_IMAGE_MAX_LENGTH, DEFAULT_BASE64_IMAGE_MAX_LENGTH),
      emit_gen_ai_attributes |-> FALSE ]

from_env(e) ==
    [ hide_inputs |-> parse_bool_env(e, ENV.HIDE_INPUTS, FALSE),
      hide_outputs |-> parse_bool_env(e, ENV.HIDE_OUTPUTS, FALSE),
      hide_input_messages |-> parse_bool_env(e, ENV.HIDE_INPUT_MESSAGES, FALSE),
      hide_output_messages |-> parse_bool_env(e, ENV.HIDE_OUTPUT_MESSAGES, FALSE),
      hide_input_images |-> parse_bool_env(e, ENV.HIDE_INPUT_IMAGES, FALSE),
      hide_input_text |-> parse_bool_env(e, ENV.HIDE_INPUT_TEXT, FALSE),
      hide_output_text |-> parse_bool_env(e, ENV.HIDE_OUTPUT_TEXT, FALSE),
      hide_llm_invocation_parameters |->
          parse_bool_env(e, ENV.HIDE_LLM_INVOCATION_PARAMETERS, FALSE),
      hide_embedding_vectors |-> parse_bool_env(e, ENV.HIDE_EMBEDDING_VECTORS, FALSE),
      hide_embeddings_vectors |-> parse_bool_env(e, ENV.HIDE_EMBEDDINGS_VECTORS, FALSE),
      hide_embeddings_text |-> parse_bool_env(e, ENV.HIDE_EMBEDDINGS_TEXT, FALSE),
      hide_prompts |-> parse_bool_env(e, ENV.HIDE_PROMPTS, FALSE),
      hide_choices |-> parse_bool_env(e, ENV.HIDE_CHOICES, FALSE),
      base64_image_max_length |->
          parse_usize_env(e, ENV.BASE64_IMAGE_MAX_LENGTH, DEFAULT_BASE64_IMAGE_MAX_LENGTH),
      emit_gen_ai_attributes |-> TRUE ]

should_hide_input_messages(c) == c.hide_inputs \/ c.hide_input_messages

should_hide_output_messages(c) == c.hide_outputs \/ c.hide_output_messages

\* should_hide_input_text without the hide_input_messages disjunct
should_hide_input_text_without_messages(c) == c.hide_inputs \/ c.hide_input_text

should_hide_input_text(c) ==
    c.hide_inputs \/ c.hide_input_messages \/ c.hide_input_text

should_hide_output_text(c) ==
    c.hide_outputs \/ c.hide_output_messages \/ c.hide_output_text

should_hide_input_images(c) ==
    c.hide_inputs \/ c.hide_input_messages \/ c.hide_input_images

should_hide_embedding_vectors(c) ==
    c.hide_embedding_vectors \/ c.hide_embeddings_vectors

\* should_hide_prompts cascading from hide_input_messages as well
should_hide_prompts_from_messages(c) ==
    c.hide_inputs \/ c.hide_input_messages \/ c.hide_prompts

should_hide_prompts(c) == c.hide_inputs \/ c.hide_prompts

should_hide_choices(c) == c.hide_outputs \/ c.hide_choices

(***************************************************************************)
(* config.rs: TraceConfigBuilder                                           *)
(***************************************************************************)
\* #[derive(Default)]: every field None
TraceConfigBuilder_default == [f \in ConfigFields |-> None]

\* builder_setter!: self.$name = Some(value)
builder_setter(t, name, value) == [t EXCEPT ![name] = Some(value)]

\* build resolving hide_inputs from the environment before the override
TraceConfigBuilder_build_env_first(t, e) ==
    LET envc == from_env(e)
    IN  [ f \in ConfigFields |->
            IF f = "hide_inputs" /\ IsSome(e[ENV.HIDE_INPUTS])
            THEN envc[f]
            ELSE unwrap_or(t[f], envc[f]) ]

TraceConfigBuilder_build(t, e) ==
    LET envc == from_env(e)
    IN  [ hide_inputs |-> unwrap_or(t.hide_inputs, envc.hide_inputs),
          hide_outputs |-> unwrap_or(t.hide_outputs, envc.hide_outputs),
          hide_input_messages |->
              unwrap_or(t.hide_input_messages, envc.hide_input_messages),
          hide_output_messages |->
              unwrap_or(t.hide_output_messages, envc.hide_output_messages),
          hide_input_images |-> unwrap_or(t.hide_input_images, envc.hide_input_images),
          hide_input_text |-> unwrap_or(t.hide_input_text, envc.hide_input_text),
          hide_output_text |-> unwrap_or(t.hide_output_text, envc.hide_output_text),
          hide_llm_invocation_parameters |->
              unwrap_or(t.hide_llm_invocation_parameters,
                        envc.hide_llm_invocation_parameters),
          hide_embedding_vectors |->
              unwrap_or(t.hide_embedding_vectors, envc.hide_embedding_vectors),
          hide_embeddings_vectors |->
              unwrap_or(t.hide_embeddings_vectors, envc.hide_embeddings_vectors),
          hide_embeddings_text |->
              unwrap_or(t.hide_embeddings_text, envc.hide_embeddings_text),
          hide_prompts |-> unwrap_or(t.hide_prompts, envc.hide_prompts),
          hide_choices |-> unwrap_or(t.hide_choices, envc.hide_choices),
          base64_image_max_length |->
              unwrap_or(t.base64_image_max_length, envc.base64_image_max_length),
          emit_gen_ai_attributes |->
              unwrap_or(t.emit_gen_ai_attributes, envc.emit_gen_ai_attributes) ]

(***************************************************************************)
(* Specification SpecConfig: constructing a TraceConfig.  The environment  *)
(* is set up, a TraceConfigBuilder is staged, and one of the three         *)
(* constructors takes the snapshot.                                        *)
(***************************************************************************)
EmptyEnv == [k \in EnvVars |-> None]

VarsSet(e) == {k \in EnvVars : IsSome(e[k])}

Overrides(t) == {f \in ConfigFields : IsSome(t[f])}

Settings == Cardinality(VarsSet(env)) + Cardinality(Overrides(tcb))

SpanIdle == b = None /\ span = None /\ calls = <<>>

InitConfig ==
    /\ env = EmptyEnv
    /\ tcb = TraceConfigBuilder_default
    /\ cfg = None
    /\ how = "none"
    /\ derived = None
    /\ SpanIdle

\* env::set_var(key, value)
SetVar(key, value) ==
    /\ ~IsSome(env[key])
    /\ env' = [env EXCEPT ![key] = Some(value)]
    /\ UNCHANGED <<tcb, cfg, how, derived, b, span, calls>>

\* TraceConfigBuilder::$name(value) for the fourteen bool fields
SetBool(name, value) ==
    /\ ~IsSome(tcb[name])
    /\ tcb' = builder_setter(tcb, name, value)
    /\ UNCHANGED <<env, cfg, how, derived, b, span, calls>>

\* TraceConfigBuilder::base64_image_max_length(value)
SetUsize(value) ==
    /\ ~IsSome(tcb.base64_image_max_length)
    /\ tcb' = builder_setter(tcb, "base64_image_max_length", value)
    /\ UNCHANGED <<env, cfg, how, derived, b, span, calls>>

\* TraceConfig::builder()...build()
Build ==
    /\ how = "none"
    /\ cfg' = Some(TraceConfigBuilder_build(tcb, env))
    /\ how' = "build"
    /\ UNCHANGED <<env, tcb, derived, b, span, calls>>

\* TraceConfig::from_env()
FromEnv ==
    /\ how = "none"
    /\ tcb = TraceConfigBuilder_default
    /\ cfg' = Some(from_env(env))
    /\ how' = "from_env"
    /\ UNCHANGED <<env, tcb, derived, b, span, calls>>

\* TraceConfig::default()
Default ==
    /\ how = "none"
    /\ tcb = TraceConfigBuilder_default
    /\ cfg' = Some(TraceConfig_default)
    /\ how' = "default"
    /\ UNCHANGED <<env, tcb, derived, b, span, calls>>

\* the environment and the builder are set up before the snapshot is taken,
\* with at most MaxSettings variables and overrides
Staging == how = "none" /\ Settings < MaxSettings

NextConfig ==
    \/ Staging /\ \E key \in EnvVars, value \in EnvValues : SetVar(key, value)
    \/ Staging /\ \E name \in BoolFields, value \in BOOLEAN : SetBool(name, value)
    \/ Staging /\ \E value \in UsizeValues : SetUsize(value)
    \/ Build
    \/ FromEnv
    \/ Default

SpecConfig == InitConfig /\ [][NextConfig]_vars

(***************************************************************************)
(* Specification SpecQuery: the derived visibility queries, asked of every *)
(* TraceConfig value (the struct's fields are public, so every assignment  *)
(* of the switches is a configuration a caller can hold).                  *)
(***************************************************************************)
AllTraceConfigs ==
    [ hide_inputs : BOOLEAN,
      hide_outputs : BOOLEAN,
      hide_input_messages : BOOLEAN,
      hide_output_messages : BOOLEAN,
      hide_input_images : BOOLEAN,
      hide_input_text : BOOLEAN,
      hide_output_text : BOOLEAN,
      hide_llm_invocation_parameters : BOOLEAN,
      hide_embedding_vectors : BOOLEAN,
      hide_embeddings_vectors : BOOLEAN,
      hide_embeddings_text : BOOLEAN,
      hide_prompts : BOOLEAN,
      hide_choices : BOOLEAN,
      base64_image_max_length : {DEFAULT_BASE64_IMAGE_MAX_LENGTH},
      emit_gen_ai_attributes : BOOLEAN ]

InitQuery ==
    /\ env = EmptyEnv
    /\ tcb = TraceConfigBuilder_default
    /\ cfg \in {Some(c) : c \in AllTraceConfigs}
    /\ how = "given"
    /\ derived = None
    /\ SpanIdle

\* the eight questions answered from the environment as it is when asked
Query_reading_the_environment ==
    /\ derived = None
    /\ LET c == from_env(env)
       IN  derived' =
             Some([ input_messages |-> should_hide_input_messages(c),
                    output_messages |-> should_hide_output_messages(c),
                    input_text |-> should_hide_input_text(c),
                    output_text |-> should_hide_output_text(c),
                    input_images |-> should_hide_input_images(c),
                    embedding_vectors |-> should_hide_embedding_vectors(c),
                    prompts |-> should_hide_prompts(c),
                    choices |-> should_hide_choices(c) ])
    /\ UNCHANGED <<env, tcb, cfg, how, b, span, calls>>

\* the caller asks the eight should_hide_* questions of its configuration
Query ==
    /\ derived = None
    /\ LET c == Unwrap(cfg)
       IN  derived' =
             Some([ input_messages |-> should_hide_input_messages(c),
                    output_messages |-> should_hide_output_messages(c),
                    input_text |-> should_hide_input_text(c),
                    output_text |-> should_hide_output_text(c),
                    input_images |-> should_hide_input_images(c),
                    embedding_vectors |-> should_hide_embedding_vectors(c),
                    prompts |-> should_hide_prompts(c),
                    choices |-> should_hide_choices(c) ])
    /\ UNCHANGED <<env, tcb, cfg, how, b, span, calls>>

NextQuery == Query

SpecQuery == InitQuery /\ [][NextQuery]_vars

(***************************************************************************)
(* Properties of the configuration                                         *)
(***************************************************************************)
\* the switches of c that are on
SwitchesOn(c) == {f \in HideFields : c[f]}

\* C3: for every assignment of the flat switches, each derived query equals
\* its documented OR-expression over the switches and nothing else.
C3_QueriesAreTheirOrExpressions ==
    IsSome(derived) =>
        LET c == Unwrap(cfg)
            d == Unwrap(derived)
        IN  /\ d.input_messages = (c.hide_inputs \/ c.hide_input_messages)
            /\ d.output_messages = (c.hide_outputs \/ c.hide_output_messages)
            /\ d.input_text =
                 (c.hide_inputs \/ c.hide_input_messages \/ c.hide_input_text)
            /\ d.output_text =
                 (c.hide_outputs \/ c.hide_output_messages \/ c.hide_output_text)
            /\ d.input_images =
                 (c.hide_inputs \/ c.hide_input_messages \/ c.hide_input_images)
            /\ d.embedding_vectors =
                 (c.hide_embedding_vectors \/ c.hide_embeddings_vectors)
            /\ d.prompts = (c.hide_inputs \/ c.hide_prompts)
            /\ d.choices = (c.hide_outputs \/ c.hide_choices)

\* the queries were answered for a configuration with the deprecated
\* hide_embedding_vectors off, its replacement on and hide_input_text on
C3_Witness ==
    /\ IsSome(derived)
    /\ SwitchesOn(Unwrap(cfg)) = {"hide_embeddings_vectors", "hide_input_text"}
    /\ Unwrap(derived).embedding_vectors
    /\ Unwrap(derived).input_text
    /\ ~Unwrap(derived).input_messages

\* C4: the cascade is one-directional: a narrower switch, set alone, never
\* turns on a broader derived decision.
C4_CascadeIsOneDirectional ==
    IsSome(derived) =>
        LET on == SwitchesOn(Unwrap(cfg))
            d == Unwrap(derived)
        IN  /\ on = {"hide_input_messages"} => ~d.prompts
            /\ on = {"hide_output_messages"} => ~d.choices
            /\ on = {"hide_input_text"} =>
                 ~d.input_messages /\ ~d.input_images /\ ~d.prompts
            /\ on = {"hide_output_text"} => ~d.output_messages /\ ~d.choices

\* the queries were answered with hide_input_messages the only switch on
C4_Witness ==
    /\ IsSome(derived)
    /\ SwitchesOn(Unwrap(cfg)) = {"hide_input_messages"}
    /\ Unwrap(derived).input_text
    /\ ~Unwrap(derived).prompts

\* the environment variable of each field, as the interface documents it
EnvVarOf(f) ==
    CASE f = "hide_inputs" -> "OPENINFERENCE_HIDE_INPUTS"
      [] f = "hide_outputs" -> "OPENINFERENCE_HIDE_OUTPUTS"
      [] f = "hide_input_messages" -> "OPENINFERENCE_HIDE_INPUT_MESSAGES"
      [] f = "hide_output_messages" -> "OPENINFERENCE_HIDE_OUTPUT_MESSAGES"
      [] f = "hide_input_images" -> "OPENINFERENCE_HIDE_INPUT_IMAGES"
      [] f = "hide_input_text" -> "OPENINFERENCE_HIDE_INPUT_TEXT"
      [] f = "hide_output_text" -> "OPENINFERENCE_HIDE_OUTPUT_TEXT"
      [] f = "hide_llm_invocation_parameters" ->
             "OPENINFERENCE_HIDE_LLM_INVOCATION_PARAMETERS"
      [] f = "hide_embedding_vectors" -> "OPENINFERENCE_HIDE_EMBEDDING_VECTORS"
      [] f = "hide_embeddings_vectors" -> "OPENINFERENCE_HIDE_EMBEDDINGS_VECTORS"
      [] f = "hide_embeddings_text" -> "OPENINFERENCE_HIDE_EMBEDDINGS_TEXT"
      [] f = "hide_prompts" -> "OPENINFERENCE_HIDE_PROMPTS"
      [] f = "hide_choices" -> "OPENINFERENCE_HIDE_CHOICES"
      [] f = "base64_image_max_length" -> "OPENINFERENCE_BASE64_IMAGE_MAX_LENGTH"

\* the values of the model's environment, classified by hand
TrueStrings == { <<"t","r","u","e">>, <<"T","R","U","E">>, <<"1">> }

FalseStrings == { <<"f","a","l","s","e">>, <<"0">> }

NumberOf(v) ==
    CASE v = <<"1","6","0","0","0">> -> Some(16000)
      [] v = <<"1">> -> Some(1)
      [] v = <<"0">> -> Some(0)
      [] OTHER -> None

\* the value the environment gives to field f, the compiled default when
\* the variable is absent or invalid
ExpectedFromEnv(e, f) ==
    IF f = "emit_gen_ai_attributes" THEN TRUE
    ELSE IF f = "base64_image_max_length"
    THEN IF IsSome(e[EnvVarOf(f)]) /\ IsSome(NumberOf(Unwrap(e[EnvVarOf(f)])))
         THEN Unwrap(NumberOf(Unwrap(e[EnvVarOf(f)])))
         ELSE 32000
    ELSE IsSome(e[EnvVarOf(f)]) /\ Unwrap(e[EnvVarOf(f)]) \in TrueStrings

\* C5: per field, TraceConfigBuilder::build resolves to the builder override
\* if the field was set, otherwise to the value of the field's environment
\* variable, otherwise to the default.  The resolved value of a field reads
\* nothing of any other field or variable.
C5_OverrideThenEnvThenDefault ==
    how = "build" =>
        \A f \in ConfigFields :
            Unwrap(cfg)[f] =
                IF IsSome(tcb[f]) THEN Unwrap(tcb[f]) ELSE ExpectedFromEnv(env, f)

\* OPENINFERENCE_HIDE_INPUTS=true overridden by hide_inputs(false)
C5_Witness ==
    /\ how = "build"
    /\ env[ENV.HIDE_INPUTS] = Some(<<"t","r","u","e">>)
    /\ tcb.hide_inputs = Some(FALSE)
    /\ ~Unwrap(cfg).hide_inputs

\* whether value v is invalid for variable key
InvalidFor(key, v) ==
    IF key = "OPENINFERENCE_BASE64_IMAGE_MAX_LENGTH"
    THEN ~IsSome(NumberOf(v))
    ELSE v \notin TrueStrings \cup FalseStrings

Constructed(h, t, e) ==
    IF h = "build" THEN TraceConfigBuilder_build(t, e) ELSE from_env(e)

\* C6: an invalid environment value never aborts the construction and is
\* treated as an absent variable: the configuration constructed is the one
\* constructed with the variable unset (32,000 for the image length).
C6_InvalidIsAbsent ==
    how \in {"from_env", "build"} =>
        /\ IsSome(cfg)
        /\ \A f \in BoolFields : Unwrap(cfg)[f] \in BOOLEAN
        /\ Unwrap(cfg).base64_image_max_length \in Nat
        /\ \A key \in EnvVars :
             IsSome(env[key]) /\ InvalidFor(key, Unwrap(env[key])) =>
                /\ Unwrap(cfg) = Constructed(how, tcb, [env EXCEPT ![key] = None])
                /\ ( key = "OPENINFERENCE_BASE64_IMAGE_MAX_LENGTH"
                     /\ ~IsSome(tcb.base64_image_max_length)
                     => Unwrap(cfg).base64_image_max_length = 32000 )

\* from_env with OPENINFERENCE_BASE64_IMAGE_MAX_LENGTH=not_a_bool
C6_Witness ==
    /\ how = "from_env"
    /\ env[ENV.BASE64_IMAGE_MAX_LENGTH] =
         Some(<<"n","o","t","_","a","_","b","o","o","l">>)
    /\ Unwrap(cfg).base64_image_max_length = 32000

\* C7: from_env sets each switch to true when its own variable is "true" or
\* "1" (any letter case), and to false when it is "false" or "0", any other
\* value, or absent.
C7_FromEnvReadsBooleans ==
    how = "from_env" =>
        \A f \in HideFields :
            Unwrap(cfg)[f] =
                ( IsSome(env[EnvVarOf(f)])
                  /\ Unwrap(env[EnvVarOf(f)]) \in TrueStrings )

\* from_env with OPENINFERENCE_HIDE_INPUT_MESSAGES=TRUE and
\* OPENINFERENCE_HIDE_OUTPUT_MESSAGES=false
C7_Witness ==
    /\ how = "from_env"
    /\ env[ENV.HIDE_INPUT_MESSAGES] = Some(<<"T","R","U","E">>)
    /\ env[ENV.HIDE_OUTPUT_MESSAGES] = Some(<<"f","a","l","s","e">>)
    /\ Unwrap(cfg).hide_input_messages
    /\ ~Unwrap(cfg).hide_output_messages

MaximumObservability ==
    [ hide_inputs |-> FALSE, hide_outputs |-> FALSE,
      hide_input_messages |-> FALSE, hide_output_messages |-> FALSE,
      hide_input_images |-> FALSE, hide_input_text |-> FALSE,
      hide_output_text |-> FALSE, hide_llm_invocation_parameters |-> FALSE,
      hide_embedding_vectors |-> FALSE, hide_embeddings_vectors |-> FALSE,
      hide_embeddings_text |-> FALSE, hide_prompts |-> FALSE,
      hide_choices |-> FALSE, base64_image_max_length |-> 32000,
      emit_gen_ai_attributes |-> TRUE ]

\* C8: the default configuration is maximum observability, and so is a
\* configuration constructed by from_env or by a builder without overrides
\* when no variable is set.
C8_DefaultIsMaximumObservability ==
    /\ how = "default" => Unwrap(cfg) = MaximumObservability
    /\ ( how \in {"from_env", "build"}
         /\ VarsSet(env) = {} /\ Overrides(tcb) = {} )
       => Unwrap(cfg) = MaximumObservability

\* TraceConfig::builder().build() in an empty environment
C8_Witness ==
    /\ how = "build"
    /\ VarsSet(env) = {}
    /\ Overrides(tcb) = {}
    /\ Unwrap(cfg) = MaximumObservability

(***************************************************************************)
(* attributes.rs, gen_ai.rs: the attribute keys the builders and the       *)
(* recording functions write.  An indexed key is format!("...{index}...").  *)
(***************************************************************************)
\* the constant keys, by module: attributes.llm.MODEL_NAME is
\* attributes::llm::MODEL_NAME
attributes ==
    [ OPENINFERENCE_SPAN_KIND |-> "openinference.span.kind",
      llm |->
        [ MODEL_NAME |-> "llm.model_name",
          SYSTEM |-> "llm.system",
          PROVIDER |-> "llm.provider",
          INVOCATION_PARAMETERS |-> "llm.invocation_parameters",
          token_count |->
            [ PROMPT |-> "llm.token_count.prompt",
              COMPLETION |-> "llm.token_count.completion",
              TOTAL |-> "llm.token_count.total" ] ],
      embedding |->
        [ MODEL_NAME |-> "embedding.model_name" ],
      tool |->
        [ NAME |-> "tool.name",
          DESCRIPTION |-> "tool.description",
          PARAMETERS |-> "tool.parameters" ],
      reranker |->
        [ MODEL_NAME |-> "reranker.model_name",
          QUERY |-> "reranker.query",
          TOP_K |-> "reranker.top_k" ],
      input |->
        [ VALUE |-> "input.value",
          MIME_TYPE |-> "input.mime_type" ],
      output |->
        [ VALUE |-> "output.value",
          MIME_TYPE |-> "output.mime_type" ],
      exception |->
        [ TYPE |-> "exception.type",
          MESSAGE |-> "exception.message" ],
      agent |->
        [ NAME |-> "agent.name" ] ]

\* gen_ai.request.MODEL is gen_ai::request::MODEL
gen_ai ==
    [ PROVIDER_NAME |-> "gen_ai.provider.name",
      SYSTEM |-> "gen_ai.system",
      request |->
        [ MODEL |-> "gen_ai.request.model",
          TEMPERATURE |-> "gen_ai.request.temperature",
          TOP_P |-> "gen_ai.request.top_p",
          TOP_K |-> "gen_ai.request.top_k",
          MAX_TOKENS |-> "gen_ai.request.max_tokens",
          FREQUENCY_PENALTY |-> "gen_ai.request.frequency_penalty",
          PRESENCE_PENALTY |-> "gen_ai.request.presence_penalty" ],
      usage |->
        [ INPUT_TOKENS |-> "gen_ai.usage.input_tokens",
          OUTPUT_TOKENS |-> "gen_ai.usage.output_tokens" ] ]

\* map_gen_ai_to_openinference with the arms of provider and system exchanged
map_gen_ai_to_openinference_arms_exchanged(gen_ai_key) ==
    CASE gen_ai_key = "gen_ai.request.model" -> Some(attributes.llm.MODEL_NAME)
      [] gen_ai_key = "gen_ai.provider.name" -> Some(attributes.llm.SYSTEM)
      [] gen_ai_key = "gen_ai.system" -> Some(attributes.llm.PROVIDER)
      [] gen_ai_key = "gen_ai.usage.input_tokens" -> Some(attributes.llm.token_count.PROMPT)
      [] gen_ai_key = "gen_ai.usage.output_tokens" ->
             Some(attributes.llm.token_count.COMPLETION)
      [] OTHER -> None

map_openinference_to_gen_ai(openinference_key) ==
    CASE openinference_key = "llm.model_name" -> Some(gen_ai.request.MODEL)
      [] openinference_key = "llm.provider" -> Some(gen_ai.PROVIDER_NAME)
      [] openinference_key = "llm.system" -> Some(gen_ai.SYSTEM)
      [] openinference_key = "llm.token_count.prompt" -> Some(gen_ai.usage.INPUT_TOKENS)
      [] openinference_key = "llm.token_count.completion" -> Some(gen_ai.usage.OUTPUT_TOKENS)
      [] OTHER -> None

map_gen_ai_to_openinference(gen_ai_key) ==
    CASE gen_ai_key = "gen_ai.request.model" -> Some(attributes.llm.MODEL_NAME)
      [] gen_ai_key = "gen_ai.provider.name" -> Some(attributes.llm.PROVIDER)
      [] gen_ai_key = "gen_ai.system" -> Some(attributes.llm.SYSTEM)
      [] gen_ai_key = "gen_ai.usage.input_tokens" -> Some(attributes.llm.token_count.PROMPT)
      [] gen_ai_key = "gen_ai.usage.output_tokens" ->
             Some(attributes.llm.token_count.COMPLETION)
      [] OTHER -> None

llm_input_messages_role(index) ==
    "llm.input_messages." \o ToString(index) \o ".message.role"

llm_input_messages_content(index) ==
    "llm.input_messages." \o ToString(index) \o ".message.content"

llm_output_messages_role(index) ==
    "llm.output_messages." \o ToString(index) \o ".message.role"

llm_output_messages_content(index) ==
    "llm.output_messages." \o ToString(index) \o ".message.content"

llm_output_messages_tool_calls_id(msg_index, call_index) ==
    "llm.output_messages." \o ToString(msg_index) \o ".message.tool_calls."
        \o ToString(call_index) \o ".tool_call.id"

llm_output_messages_tool_calls_function_name(msg_index, call_index) ==
    "llm.output_messages." \o ToString(msg_index) \o ".message.tool_calls."
        \o ToString(call_index) \o ".tool_call.function.name"

llm_output_messages_tool_calls_function_arguments(msg_index, call_index) ==
    "llm.output_messages." \o ToString(msg_index) \o ".message.tool_calls."
        \o ToString(call_index) \o ".tool_call.function.arguments"

llm_tools_json_schema(index) ==
    "llm.tools." \o ToString(index) \o ".tool.json_schema"

embedding_embeddings_text(index) ==
    "embedding.embeddings." \o ToString(index) \o ".embedding.text"

retrieval_documents_id(index) ==
    "retrieval.documents." \o ToString(index) \o ".document.id"

retrieval_documents_content(index) ==
    "retrieval.documents." \o ToString(index) \o ".document.content"

retrieval_documents_score(index) ==
    "retrieval.documents." \o ToString(index) \o ".document.score"

reranker_input_documents_id(index) ==
    "reranker.input_documents." \o ToString(index) \o ".document.id"

reranker_input_documents_content(index) ==
    "reranker.input_documents." \o ToString(index) \o ".document.content"

reranker_input_documents_score(index) ==
    "reranker.input_documents." \o ToString(index) \o ".document.score"

reranker_output_documents_id(index) ==
    "reranker.output_documents." \o ToString(index) \o ".document.id"

reranker_output_documents_content(index) ==
    "reranker.output_documents." \o ToString(index) \o ".document.content"

reranker_output_documents_score(index) ==
    "reranker.output_documents." \o ToString(index) \o ".document.score"

(***************************************************************************)
(* span_kind.rs: SpanKind::as_str                                          *)
(***************************************************************************)
SpanKinds ==
    { "Llm", "Embedding", "Chain", "Tool", "Agent", "Retriever", "Reranker",
      "Guardrail", "Evaluator" }

\* as_str giving the name of the variant as it is written in the enum
as_str_of_variant(kind) == kind

as_str(kind) ==
    CASE kind = "Llm" -> "LLM"
      [] kind = "Embedding" -> "EMBEDDING"
      [] kind = "Chain" -> "CHAIN"
      [] kind = "Tool" -> "TOOL"
      [] kind = "Agent" -> "AGENT"
      [] kind = "Retriever" -> "RETRIEVER"
      [] kind = "Reranker" -> "RERANKER"
      [] kind = "Guardrail" -> "GUARDRAIL"
      [] kind = "Evaluator" -> "EVALUATOR"

(***************************************************************************)
(* span_kind.rs: SpanKind::from_str.  The string is a sequence of          *)
(* characters; "U+0131" is the dotless i, "U+0130" the capital I with dot  *)
(* above, "U+00DF" the sharp s, "U+017F" the long s.                       *)
(***************************************************************************)
\* str::to_uppercase: Unicode's upper case of each character, which may be
\* more than one character
RECURSIVE to_uppercase(_)
to_uppercase(s) ==
    LET LowerCase ==
          <<"a","b","c","d","e","f","g","h","i","j","k","l","m",
            "n","o","p","q","r","s","t","u","v","w","x","y","z">>
        UpperCase ==
          <<"A","B","C","D","E","F","G","H","I","J","K","L","M",
            "N","O","P","Q","R","S","T","U","V","W","X","Y","Z">>
        upper(c) ==
            IF \E i \in DOMAIN LowerCase : LowerCase[i] = c
            THEN << UpperCase[CHOOSE i \in DOMAIN LowerCase : LowerCase[i] = c] >>
            ELSE IF c = "U+0131" THEN << "I" >>
            ELSE IF c = "U+017F" THEN << "S" >>
            ELSE IF c = "U+00DF" THEN << "S", "S" >>
            ELSE << c >>
    IN  IF s = <<>> THEN <<>> ELSE upper(Head(s)) \o to_uppercase(Tail(s))

\* from_str matching the string as it was given
from_str_as_given(s) ==
    CASE s = <<"L","L","M">> -> Some("Llm")
      [] s = <<"E","M","B","E","D","D","I","N","G">> -> Some("Embedding")
      [] s = <<"C","H","A","I","N">> -> Some("Chain")
      [] s = <<"T","O","O","L">> -> Some("Tool")
      [] s = <<"A","G","E","N","T">> -> Some("Agent")
      [] s = <<"R","E","T","R","I","E","V","E","R">> -> Some("Retriever")
      [] s = <<"R","E","R","A","N","K","E","R">> -> Some("Reranker")
      [] s = <<"G","U","A","R","D","R","A","I","L">> -> Some("Guardrail")
      [] s = <<"E","V","A","L","U","A","T","O","R">> -> Some("Evaluator")
      [] OTHER -> None

from_str(s) ==
    LET u == to_uppercase(s)
    IN  CASE u = <<"L","L","M">> -> Some("Llm")
          [] u = <<"E","M","B","E","D","D","I","N","G">> -> Some("Embedding")
          [] u = <<"C","H","A","I","N">> -> Some("Chain")
          [] u = <<"T","O","O","L">> -> Some("Tool")
          [] u = <<"A","G","E","N","T">> -> Some("Agent")
          [] u = <<"R","E","T","R","I","E","V","E","R">> -> Some("Retriever")
          [] u = <<"R","E","R","A","N","K","E","R">> -> Some("Reranker")
          [] u = <<"G","U","A","R","D","R","A","I","L">> -> Some("Guardrail")
          [] u = <<"E","V","A","L","U","A","T","O","R">> -> Some("Evaluator")
          [] OTHER -> None

(***************************************************************************)
(* The span as the sink sees it: the exported name (otel.name) and the     *)
(* attribute map.  An attribute value is tagged with its type; an f64 is   *)
(* carried as its decimal text.  set_attribute overwrites the key.         *)
(***************************************************************************)
String(v) == <<"String", v>>
I64(v) == <<"I64", v>>
F64(v) == <<"F64", v>>

NoAttributes == [k \in {} |-> String("")]

set_attribute(attrs, key, value) == (key :> value) @@ attrs

info_span(otel_name) == [name |-> otel_name, attrs |-> NoAttributes]

(***************************************************************************)
(* span_builder.rs: LlmSpanBuilder                                         *)
(***************************************************************************)
LlmSpanBuilder_new(model_name) ==
    [ kind |-> "Llm",
      model_name |-> model_name,
      provider |-> None,
      system |-> None,
      temperature |-> None,
      top_p |-> None,
      top_k |-> None,
      max_tokens |-> None,
      frequency_penalty |-> None,
      presence_penalty |-> None,
      input_messages |-> <<>>,
      invocation_parameters |-> None,
      input_value |-> None,
      output_value |-> None,
      tools |-> <<>>,
      config |-> TraceConfig_default ]

\* the input message loop redacting the content only, never the role
RECURSIVE LlmSpanBuilder_build_input_messages_role_visible(_, _, _)
LlmSpanBuilder_build_input_messages_role_visible(attrs, s, i) ==
    IF i >= Len(s.input_messages) THEN attrs
    ELSE LET role == s.input_messages[i + 1][1]
             content == s.input_messages[i + 1][2]
             hide_text == should_hide_input_text(s.config)
             a1 == set_attribute(attrs, llm_input_messages_role(i), String(role))
             next ==
               IF hide_text
               THEN set_attribute(a1, llm_input_messages_content(i), String(REDACTED))
               ELSE set_attribute(a1, llm_input_messages_content(i), String(content))
         IN  LlmSpanBuilder_build_input_messages_role_visible(next, s, i + 1)

\* for (i, (role, content)) in self.input_messages.iter().enumerate(),
\* from index i on
RECURSIVE LlmSpanBuilder_build_input_messages(_, _, _)
LlmSpanBuilder_build_input_messages(attrs, s, i) ==
    IF i >= Len(s.input_messages) THEN attrs
    ELSE LET role == s.input_messages[i + 1][1]
             content == s.input_messages[i + 1][2]
             hide_messages == should_hide_input_messages(s.config)
             hide_text == should_hide_input_text(s.config)
             next ==
               IF hide_messages
               THEN set_attribute(
                      set_attribute(attrs, llm_input_messages_role(i), String(REDACTED)),
                      llm_input_messages_content(i), String(REDACTED))
               ELSE LET a1 == set_attribute(attrs, llm_input_messages_role(i), String(role))
                    IN  IF hide_text
                        THEN set_attribute(a1, llm_input_messages_content(i),
                                           String(REDACTED))
                        ELSE set_attribute(a1, llm_input_messages_content(i),
                                           String(content))
         IN  LlmSpanBuilder_build_input_messages(next, s, i + 1)

\* the tools loop numbering its attribute groups from 1
RECURSIVE LlmSpanBuilder_build_tools_one_based(_, _, _)
LlmSpanBuilder_build_tools_one_based(attrs, s, i) ==
    IF i >= Len(s.tools) THEN attrs
    ELSE LlmSpanBuilder_build_tools_one_based(
             set_attribute(attrs, llm_tools_json_schema(i + 1), String(s.tools[i + 1])),
             s, i + 1)

\* for (i, schema) in self.tools.iter().enumerate(), from index i on
RECURSIVE LlmSpanBuilder_build_tools(_, _, _)
LlmSpanBuilder_build_tools(attrs, s, i) ==
    IF i >= Len(s.tools) THEN attrs
    ELSE LlmSpanBuilder_build_tools(
             set_attribute(attrs, llm_tools_json_schema(i), String(s.tools[i + 1])),
             s, i + 1)

\* the GenAI block writing gen_ai.request.model before it looks at the flag
LlmSpanBuilder_build_gen_ai_model_always(attrs, s) ==
    LET g1 == set_attribute(attrs, gen_ai.request.MODEL, String(s.model_name))
        opt(a, field, key, tag) ==
            IF IsSome(s[field]) THEN set_attribute(a, key, <<tag, Unwrap(s[field])>>) ELSE a
    IN  IF s.config.emit_gen_ai_attributes
        THEN opt(opt(opt(opt(opt(opt(opt(opt(g1,
                 "provider", gen_ai.PROVIDER_NAME, "String"),
                 "system", gen_ai.SYSTEM, "String"),
                 "temperature", gen_ai.request.TEMPERATURE, "F64"),
                 "top_p", gen_ai.request.TOP_P, "F64"),
                 "top_k", gen_ai.request.TOP_K, "I64"),
                 "max_tokens", gen_ai.request.MAX_TOKENS, "I64"),
                 "frequency_penalty", gen_ai.request.FREQUENCY_PENALTY, "F64"),
                 "presence_penalty", gen_ai.request.PRESENCE_PENALTY, "F64")
        ELSE g1

\* the "OTel GenAI attributes" block of LlmSpanBuilder::build
LlmSpanBuilder_build_gen_ai(attrs, s) ==
    IF s.config.emit_gen_ai_attributes
    THEN LET g1 == set_attribute(attrs, gen_ai.request.MODEL, String(s.model_name))
             g2 == IF IsSome(s.provider)
                   THEN set_attribute(g1, gen_ai.PROVIDER_NAME, String(Unwrap(s.provider)))
                   ELSE g1
             g3 == IF IsSome(s.system)
                   THEN set_attribute(g2, gen_ai.SYSTEM, String(Unwrap(s.system)))
                   ELSE g2
             g4 == IF IsSome(s.temperature)
                   THEN set_attribute(g3, gen_ai.request.TEMPERATURE,
                                      F64(Unwrap(s.temperature)))
                   ELSE g3
             g5 == IF IsSome(s.top_p)
                   THEN set_attribute(g4, gen_ai.request.TOP_P, F64(Unwrap(s.top_p)))
                   ELSE g4
             g6 == IF IsSome(s.top_k)
                   THEN set_attribute(g5, gen_ai.request.TOP_K, I64(Unwrap(s.top_k)))
                   ELSE g5
             g7 == IF IsSome(s.max_tokens)
                   THEN set_attribute(g6, gen_ai.request.MAX_TOKENS,
                                      I64(Unwrap(s.max_tokens)))
                   ELSE g6
             g8 == IF IsSome(s.frequency_penalty)
                   THEN set_attribute(g7, gen_ai.request.FREQUENCY_PENALTY,
                                      F64(Unwrap(s.frequency_penalty)))
                   ELSE g7
         IN  IF IsSome(s.presence_penalty)
             THEN set_attribute(g8, gen_ai.request.PRESENCE_PENALTY,
                                F64(Unwrap(s.presence_penalty)))
             ELSE g8
    ELSE attrs

LlmSpanBuilder_build(s) ==
    LET span_name == "llm " \o s.model_name
        a0 == info_span(span_name).attrs
        a1 == set_attribute(a0, attributes.OPENINFERENCE_SPAN_KIND, String(as_str("Llm")))
        a2 == set_attribute(a1, attributes.llm.MODEL_NAME, String(s.model_name))
        a3 == IF IsSome(s.provider)
              THEN set_attribute(a2, attributes.llm.PROVIDER, String(Unwrap(s.provider)))
              ELSE a2
        a4 == IF IsSome(s.system)
              THEN set_attribute(a3, attributes.llm.SYSTEM, String(Unwrap(s.system)))
              ELSE a3
        a5 == IF IsSome(s.invocation_parameters)
              THEN IF ~s.config.hide_llm_invocation_parameters
                   THEN set_attribute(a4, attributes.llm.INVOCATION_PARAMETERS,
                                      String(Unwrap(s.invocation_parameters)))
                   ELSE set_attribute(a4, attributes.llm.INVOCATION_PARAMETERS, String(REDACTED))
              ELSE a4
        a6 == IF IsSome(s.input_value)
              THEN IF ~s.config.hide_inputs
                   THEN set_attribute(a5, attributes.input.VALUE, String(Unwrap(s.input_value)))
                   ELSE set_attribute(a5, attributes.input.VALUE, String(REDACTED))
              ELSE a5
        a7 == IF IsSome(s.output_value)
              THEN IF ~s.config.hide_outputs
                   THEN set_attribute(a6, attributes.output.VALUE, String(Unwrap(s.output_value)))
                   ELSE set_attribute(a6, attributes.output.VALUE, String(REDACTED))
              ELSE a6
        a8 == IF s.input_messages # <<>>
              THEN LlmSpanBuilder_build_input_messages(a7, s, 0)
              ELSE a7
        a9 == LlmSpanBuilder_build_tools(a8, s, 0)
    IN  [ name |-> span_name, attrs |-> LlmSpanBuilder_build_gen_ai(a9, s) ]

(***************************************************************************)
(* span_builder.rs: EmbeddingSpanBuilder                                   *)
(***************************************************************************)
EmbeddingSpanBuilder_new(model_name) ==
    [ kind |-> "Embedding",
      model_name |-> model_name,
      texts |-> <<>>,
      input_value |-> None,
      config |-> TraceConfig_default ]

\* the texts loop without the look at hide_embeddings_text
RECURSIVE EmbeddingSpanBuilder_build_texts_verbatim(_, _, _)
EmbeddingSpanBuilder_build_texts_verbatim(attrs, s, i) ==
    IF i >= Len(s.texts) THEN attrs
    ELSE EmbeddingSpanBuilder_build_texts_verbatim(
             set_attribute(attrs, embedding_embeddings_text(i), String(s.texts[i + 1])),
             s, i + 1)

\* for (i, text) in self.texts.iter().enumerate(), from index i on
RECURSIVE EmbeddingSpanBuilder_build_texts(_, _, _)
EmbeddingSpanBuilder_build_texts(attrs, s, i) ==
    IF i >= Len(s.texts) THEN attrs
    ELSE LET hide_text == s.config.hide_embeddings_text
             next == IF hide_text
                     THEN set_attribute(attrs, embedding_embeddings_text(i),
                                        String(REDACTED))
                     ELSE set_attribute(attrs, embedding_embeddings_text(i),
                                        String(s.texts[i + 1]))
         IN  EmbeddingSpanBuilder_build_texts(next, s, i + 1)

EmbeddingSpanBuilder_build(s) ==
    LET span_name == "embedding " \o s.model_name
        a0 == info_span(span_name).attrs
        a1 == set_attribute(a0, attributes.OPENINFERENCE_SPAN_KIND, String(as_str("Embedding")))
        a2 == set_attribute(a1, attributes.embedding.MODEL_NAME, String(s.model_name))
        a3 == EmbeddingSpanBuilder_build_texts(a2, s, 0)
        a4 == IF IsSome(s.input_value)
              THEN IF ~s.config.hide_inputs
                   THEN set_attribute(a3, attributes.input.VALUE, String(Unwrap(s.input_value)))
                   ELSE set_attribute(a3, attributes.input.VALUE, String(REDACTED))
              ELSE a3
    IN  [ name |-> span_name, attrs |-> a4 ]

(***************************************************************************)
(* span_builder.rs: ChainSpanBuilder                                       *)
(***************************************************************************)
ChainSpanBuilder_new(name) ==
    [ kind |-> "Chain",
      name |-> name,
      input_value |-> None,
      input_mime_type |-> None,
      output_value |-> None,
      output_mime_type |-> None,
      config |-> TraceConfig_default ]

\* build treating the MIME types as part of the value they describe
ChainSpanBuilder_build_mime_type_hidden(s) ==
    LET opt(a, field, key, hidden) ==
            IF IsSome(s[field])
            THEN set_attribute(a, key, String(IF hidden THEN REDACTED ELSE Unwrap(s[field])))
            ELSE a
        a1 == set_attribute(info_span(s.name).attrs, attributes.OPENINFERENCE_SPAN_KIND,
                            String(as_str("Chain")))
        a2 == opt(a1, "input_value", attributes.input.VALUE, s.config.hide_inputs)
        a3 == opt(a2, "input_mime_type", attributes.input.MIME_TYPE, s.config.hide_inputs)
        a4 == opt(a3, "output_value", attributes.output.VALUE, s.config.hide_outputs)
        a5 == opt(a4, "output_mime_type", attributes.output.MIME_TYPE, s.config.hide_outputs)
    IN  [ name |-> s.name, attrs |-> a5 ]

ChainSpanBuilder_build(s) ==
    LET a0 == info_span(s.name).attrs
        a1 == set_attribute(a0, attributes.OPENINFERENCE_SPAN_KIND, String(as_str("Chain")))
        a2 == IF IsSome(s.input_value)
              THEN IF ~s.config.hide_inputs
                   THEN set_attribute(a1, attributes.input.VALUE, String(Unwrap(s.input_value)))
                   ELSE set_attribute(a1, attributes.input.VALUE, String(REDACTED))
              ELSE a1
        a3 == IF IsSome(s.input_mime_type)
              THEN set_attribute(a2, attributes.input.MIME_TYPE, String(Unwrap(s.input_mime_type)))
              ELSE a2
        a4 == IF IsSome(s.output_value)
              THEN IF ~s.config.hide_outputs
                   THEN set_attribute(a3, attributes.output.VALUE, String(Unwrap(s.output_value)))
                   ELSE set_attribute(a3, attributes.output.VALUE, String(REDACTED))
              ELSE a3
        a5 == IF IsSome(s.output_mime_type)
              THEN set_attribute(a4, attributes.output.MIME_TYPE, String(Unwrap(s.output_mime_type)))
              ELSE a4
    IN  [ name |-> s.name, attrs |-> a5 ]

(***************************************************************************)
(* span_builder.rs: ToolSpanBuilder                                        *)
(***************************************************************************)
ToolSpanBuilder_new(name) ==
    [ kind |-> "Tool",
      name |-> name,
      description |-> None,
      parameters |-> None,
      input_value |-> None,
      output_value |-> None,
      config |-> TraceConfig_default ]

ToolSpanBuilder_build(s) ==
    LET span_name == "tool " \o s.name
        a0 == info_span(span_name).attrs
        a1 == set_attribute(a0, attributes.OPENINFERENCE_SPAN_KIND, String(as_str("Tool")))
        a2 == set_attribute(a1, attributes.tool.NAME, String(s.name))
        a3 == IF IsSome(s.description)
              THEN set_attribute(a2, attributes.tool.DESCRIPTION, String(Unwrap(s.description)))
              ELSE a2
        a4 == IF IsSome(s.parameters)
              THEN set_attribute(a3, attributes.tool.PARAMETERS, String(Unwrap(s.parameters)))
              ELSE a3
        a5 == IF IsSome(s.input_value)
              THEN IF ~s.config.hide_inputs
                   THEN set_attribute(a4, attributes.input.VALUE, String(Unwrap(s.input_value)))
                   ELSE set_attribute(a4, attributes.input.VALUE, String(REDACTED))
              ELSE a4
        a6 == IF IsSome(s.output_value)
              THEN IF ~s.config.hide_outputs
                   THEN set_attribute(a5, attributes.output.VALUE, String(Unwrap(s.output_value)))
                   ELSE set_attribute(a5, attributes.output.VALUE, String(REDACTED))
              ELSE a5
    IN  [ name |-> span_name, attrs |-> a6 ]

(***************************************************************************)
(* span_builder.rs: RetrieverSpanBuilder                                   *)
(***************************************************************************)
RetrieverSpanBuilder_new(name) ==
    [ kind |-> "Retriever",
      name |-> name,
      query |-> None,
      top_k |-> None,
      config |-> TraceConfig_default ]

\* build emitting the query without consulting the configuration
RetrieverSpanBuilder_build_query_verbatim(s) ==
    LET span_name == "retriever " \o s.name
        a0 == info_span(span_name).attrs
        a1 == set_attribute(a0, attributes.OPENINFERENCE_SPAN_KIND, String(as_str("Retriever")))
        a2 == IF IsSome(s.query)
              THEN set_attribute(a1, attributes.input.VALUE, String(Unwrap(s.query)))
              ELSE a1
    IN  [ name |-> span_name, attrs |-> a2 ]

RetrieverSpanBuilder_build(s) ==
    LET span_name == "retriever " \o s.name
        a0 == info_span(span_name).attrs
        a1 == set_attribute(a0, attributes.OPENINFERENCE_SPAN_KIND, String(as_str("Retriever")))
        a2 == IF IsSome(s.query)
              THEN IF ~s.config.hide_inputs
                   THEN set_attribute(a1, attributes.input.VALUE, String(Unwrap(s.query)))
                   ELSE set_attribute(a1, attributes.input.VALUE, String(REDACTED))
              ELSE a1
    IN  [ name |-> span_name, attrs |-> a2 ]

(***************************************************************************)
(* span_builder.rs: AgentSpanBuilder                                       *)
(***************************************************************************)
AgentSpanBuilder_new(name) ==
    [ kind |-> "Agent",
      name |-> name,
      input_value |-> None,
      output_value |-> None,
      config |-> TraceConfig_default ]

AgentSpanBuilder_build(s) ==
    LET span_name == "agent " \o s.name
        a0 == info_span(span_name).attrs
        a1 == set_attribute(a0, attributes.OPENINFERENCE_SPAN_KIND, String(as_str("Agent")))
        a2 == set_attribute(a1, attributes.agent.NAME, String(s.name))
        a3 == IF IsSome(s.input_value)
              THEN IF ~s.config.hide_inputs
                   THEN set_attribute(a2, attributes.input.VALUE, String(Unwrap(s.input_value)))
                   ELSE set_attribute(a2, attributes.input.VALUE, String(REDACTED))
              ELSE a2
        a4 == IF IsSome(s.output_value)
              THEN IF ~s.config.hide_outputs
                   THEN set_attribute(a3, attributes.output.VALUE, String(Unwrap(s.output_value)))
                   ELSE set_attribute(a3, attributes.output.VALUE, String(REDACTED))
              ELSE a3
    IN  [ name |-> span_name, attrs |-> a4 ]

(***************************************************************************)
(* span_builder.rs: Document, RerankerSpanBuilder                          *)
(***************************************************************************)
Document(id, content, score) == [id |-> id, content |-> content, score |-> score]

RerankerSpanBuilder_new(model_name) ==
    [ kind |-> "Reranker",
      model_name |-> model_name,
      query |-> None,
      top_k |-> None,
      input_documents |-> <<>>,
      config |-> TraceConfig_default ]

\* the input documents written with their content as supplied, whatever the
\* configuration hides
RECURSIVE RerankerSpanBuilder_build_input_documents_content_verbatim(_, _, _)
RerankerSpanBuilder_build_input_documents_content_verbatim(attrs, s, i) ==
    IF i >= Len(s.input_documents) THEN attrs
    ELSE LET doc == s.input_documents[i + 1]
             d1 == IF IsSome(doc.id)
                   THEN set_attribute(attrs, reranker_input_documents_id(i),
                                      String(Unwrap(doc.id)))
                   ELSE attrs
             d2 == set_attribute(d1, reranker_input_documents_content(i),
                                 String(doc.content))
             d3 == IF IsSome(doc.score)
                   THEN set_attribute(d2, reranker_input_documents_score(i),
                                      F64(Unwrap(doc.score)))
                   ELSE d2
         IN  RerankerSpanBuilder_build_input_documents_content_verbatim(d3, s, i + 1)

\* for (i, doc) in self.input_documents.iter().enumerate(), from index i on
RECURSIVE RerankerSpanBuilder_build_input_documents(_, _, _)
RerankerSpanBuilder_build_input_documents(attrs, s, i) ==
    IF i >= Len(s.input_documents) THEN attrs
    ELSE LET doc == s.input_documents[i + 1]
             d1 == IF IsSome(doc.id)
                   THEN set_attribute(attrs, reranker_input_documents_id(i),
                                      String(Unwrap(doc.id)))
                   ELSE attrs
             d2 == IF ~s.config.hide_inputs
                   THEN set_attribute(d1, reranker_input_documents_content(i),
                                      String(doc.content))
                   ELSE set_attribute(d1, reranker_input_documents_content(i),
                                      String(REDACTED))
             d3 == IF IsSome(doc.score)
                   THEN set_attribute(d2, reranker_input_documents_score(i),
                                      F64(Unwrap(doc.score)))
                   ELSE d2
         IN  RerankerSpanBuilder_build_input_documents(d3, s, i + 1)

RerankerSpanBuilder_build(s) ==
    LET span_name == "reranker " \o s.model_name
        a0 == info_span(span_name).attrs
        a1 == set_attribute(a0, attributes.OPENINFERENCE_SPAN_KIND, String(as_str("Reranker")))
        a2 == set_attribute(a1, attributes.reranker.MODEL_NAME, String(s.model_name))
        a3 == IF IsSome(s.query)
              THEN IF ~s.config.hide_inputs
                   THEN set_attribute(a2, attributes.reranker.QUERY, String(Unwrap(s.query)))
                   ELSE set_attribute(a2, attributes.reranker.QUERY, String(REDACTED))
              ELSE a2
        a4 == IF IsSome(s.top_k)
              THEN set_attribute(a3, attributes.reranker.TOP_K, I64(Unwrap(s.top_k)))
              ELSE a3
        a5 == RerankerSpanBuilder_build_input_documents(a4, s, 0)
    IN  [ name |-> span_name, attrs |-> a5 ]

(***************************************************************************)
(* span_builder.rs: GuardrailSpanBuilder, EvaluatorSpanBuilder             *)
(***************************************************************************)
GuardrailSpanBuilder_new(name) ==
    [ kind |-> "Guardrail",
      name |-> name,
      input_value |-> None,
      output_value |-> None,
      config |-> TraceConfig_default ]

GuardrailSpanBuilder_build(s) ==
    LET span_name == "guardrail " \o s.name
        a0 == info_span(span_name).attrs
        a1 == set_attribute(a0, attributes.OPENINFERENCE_SPAN_KIND, String(as_str("Guardrail")))
        a2 == IF IsSome(s.input_value)
              THEN IF ~s.config.hide_inputs
                   THEN set_attribute(a1, attributes.input.VALUE, String(Unwrap(s.input_value)))
                   ELSE set_attribute(a1, attributes.input.VALUE, String(REDACTED))
              ELSE a1
        a3 == IF IsSome(s.output_value)
              THEN IF ~s.config.hide_outputs
                   THEN set_attribute(a2, attributes.output.VALUE, String(Unwrap(s.output_value)))
                   ELSE set_attribute(a2, attributes.output.VALUE, String(REDACTED))
              ELSE a2
    IN  [ name |-> span_name, attrs |-> a3 ]

EvaluatorSpanBuilder_new(name) ==
    [ kind |-> "Evaluator",
      name |-> name,
      input_value |-> None,
      output_value |-> None,
      config |-> TraceConfig_default ]

EvaluatorSpanBuilder_build(s) ==
    LET span_name == "evaluator " \o s.name
        a0 == info_span(span_name).attrs
        a1 == set_attribute(a0, attributes.OPENINFERENCE_SPAN_KIND, String(as_str("Evaluator")))
        a2 == IF IsSome(s.input_value)
              THEN IF ~s.config.hide_inputs
                   THEN set_attribute(a1, attributes.input.VALUE, String(Unwrap(s.input_value)))
                   ELSE set_attribute(a1, attributes.input.VALUE, String(REDACTED))
              ELSE a1
        a3 == IF IsSome(s.output_value)
              THEN IF ~s.config.hide_outputs
                   THEN set_attribute(a2, attributes.output.VALUE, String(Unwrap(s.output_value)))
                   ELSE set_attribute(a2, attributes.output.VALUE, String(REDACTED))
              ELSE a2
    IN  [ name |-> span_name, attrs |-> a3 ]

(***************************************************************************)
(* Specification Spec: one span builder, from new() through its setters    *)
(* and config() to build().  b keeps the builder as it was finalised.      *)
(***************************************************************************)
\* switches of a configuration given to config() that differ from the default
MaxHidden == 1

\* values accumulated by the setters of one builder
MaxSetters == 2

\* the fields of TraceConfig that the build functions read, directly or
\* through should_hide_input_messages and should_hide_input_text
SwitchesRead ==
    { "hide_inputs", "hide_outputs", "hide_input_messages", "hide_input_text",
      "hide_llm_invocation_parameters", "hide_embeddings_text",
      "emit_gen_ai_attributes" }

\* the configurations that differ from the default in at most MaxHidden of
\* the switches, and the one with every hide switch on
Toggled(switches) ==
    { [ f \in ConfigFields |->
          IF f \in S THEN ~TraceConfig_default[f] ELSE TraceConfig_default[f] ] :
      S \in { T \in SUBSET switches : Cardinality(T) <= MaxHidden } \cup { HideFields } }

\* the configurations given to the builders
Configs == Toggled(SwitchesRead)

\* the identifying string given to new(), one per kind
ExampleName(kind) ==
    CASE kind = "Llm" -> "gpt-4"
      [] kind = "Embedding" -> "ada-002"
      [] kind = "Chain" -> "my_pipeline"
      [] kind = "Tool" -> "calculator"
      [] kind = "Retriever" -> "pinecone"
      [] kind = "Agent" -> "planner"
      [] kind = "Reranker" -> "cohere-rerank"
      [] kind = "Guardrail" -> "pii_filter"
      [] kind = "Evaluator" -> "relevance"

\* content values: an ordinary one, the empty string, the marker itself
Contents == { "secret", "", REDACTED }

Roles == { "system", "user" }

Labels == { "openai" }

MimeTypes == { "application/json" }

Floats == { "0.7" }

Ints == { 40 }

TextLists == { <<>>, <<"secret", REDACTED>> }

Documents ==
    { Document(Some("doc-1"), "secret", Some("0.9")),
      Document(None, "", None),
      Document(Some("doc-2"), REDACTED, None) }

SpanBuilder_new(kind, name) ==
    CASE kind = "Llm" -> LlmSpanBuilder_new(name)
      [] kind = "Embedding" -> EmbeddingSpanBuilder_new(name)
      [] kind = "Chain" -> ChainSpanBuilder_new(name)
      [] kind = "Tool" -> ToolSpanBuilder_new(name)
      [] kind = "Retriever" -> RetrieverSpanBuilder_new(name)
      [] kind = "Agent" -> AgentSpanBuilder_new(name)
      [] kind = "Reranker" -> RerankerSpanBuilder_new(name)
      [] kind = "Guardrail" -> GuardrailSpanBuilder_new(name)
      [] kind = "Evaluator" -> EvaluatorSpanBuilder_new(name)

SpanBuilder_build(s) ==
    CASE s.kind = "Llm" -> LlmSpanBuilder_build(s)
      [] s.kind = "Embedding" -> EmbeddingSpanBuilder_build(s)
      [] s.kind = "Chain" -> ChainSpanBuilder_build(s)
      [] s.kind = "Tool" -> ToolSpanBuilder_build(s)
      [] s.kind = "Retriever" -> RetrieverSpanBuilder_build(s)
      [] s.kind = "Agent" -> AgentSpanBuilder_build(s)
      [] s.kind = "Reranker" -> RerankerSpanBuilder_build(s)
      [] s.kind = "Guardrail" -> GuardrailSpanBuilder_build(s)
      [] s.kind = "Evaluator" -> EvaluatorSpanBuilder_build(s)

\* self.$field = Some(value)
set_field(s, field, value) == [s EXCEPT ![field] = Some(value)]

\* self.$field.push(value)
push_field(s, field, value) == [s EXCEPT ![field] = Append(@, value)]

\* self.$field.extend(values)
extend_field(s, field, values) == [s EXCEPT ![field] = @ \o values]

RECURSIVE SumLen(_, _)
SumLen(s, fields) ==
    IF fields = {} THEN 0
    ELSE LET f == CHOOSE g \in fields : TRUE
         IN  Len(s[f]) + SumLen(s, fields \ {f})

\* number of values the setters have accumulated in s: the fields but the
\* kind, the identity and the config
Accumulation(s) == SumLen(s, DOMAIN s \ { "kind", "name", "model_name", "config" })

\* a builder of one of the kinds exists, is not built, and has room
Accumulating(kinds) ==
    /\ IsSome(b)
    /\ span = None
    /\ Unwrap(b).kind \in kinds
    /\ Accumulation(Unwrap(b)) < MaxSetters

Init ==
    /\ env = EmptyEnv
    /\ tcb = TraceConfigBuilder_default
    /\ cfg = None
    /\ how = "none"
    /\ derived = None
    /\ SpanIdle

ConfigIdle == UNCHANGED <<env, tcb, cfg, how, derived>>

\* XSpanBuilder::new(name)
new(kind, name) ==
    /\ b = None
    /\ span = None
    /\ b' = Some(SpanBuilder_new(kind, name))
    /\ UNCHANGED <<span, calls>>
    /\ ConfigIdle

\* config(c) switching on what c hides and keeping what was hidden before
config_merging(c) ==
    /\ IsSome(b)
    /\ span = None
    /\ b' = Some([Unwrap(b) EXCEPT
                    !.config = [f \in ConfigFields |->
                                  IF f \in HideFields THEN @[f] \/ c[f] ELSE c[f]]])
    /\ cfg' = Some(c)
    /\ UNCHANGED <<env, tcb, how, derived, span, calls>>

\* XSpanBuilder::config(c): self.config = c, on every kind; cfg keeps the
\* configuration handed over
config(c) ==
    /\ IsSome(b)
    /\ span = None
    /\ b' = Some([Unwrap(b) EXCEPT !.config = c])
    /\ cfg' = Some(c)
    /\ UNCHANGED <<env, tcb, how, derived, span, calls>>

\* LlmSpanBuilder::provider
provider(value) ==
    /\ Accumulating({ "Llm" })
    /\ b' = Some(set_field(Unwrap(b), "provider", value))
    /\ UNCHANGED <<span, calls>>
    /\ ConfigIdle

\* LlmSpanBuilder::system
system(value) ==
    /\ Accumulating({ "Llm" })
    /\ b' = Some(set_field(Unwrap(b), "system", value))
    /\ UNCHANGED <<span, calls>>
    /\ ConfigIdle

\* LlmSpanBuilder::temperature
temperature(value) ==
    /\ Accumulating({ "Llm" })
    /\ b' = Some(set_field(Unwrap(b), "temperature", value))
    /\ UNCHANGED <<span, calls>>
    /\ ConfigIdle

\* LlmSpanBuilder::top_p
top_p(value) ==
    /\ Accumulating({ "Llm" })
    /\ b' = Some(set_field(Unwrap(b), "top_p", value))
    /\ UNCHANGED <<span, calls>>
    /\ ConfigIdle

\* LlmSpanBuilder::top_k, RetrieverSpanBuilder::top_k, RerankerSpanBuilder::top_k
top_k(value) ==
    /\ Accumulating({ "Llm", "Retriever", "Reranker" })
    /\ b' = Some(set_field(Unwrap(b), "top_k", value))
    /\ UNCHANGED <<span, calls>>
    /\ ConfigIdle

\* LlmSpanBuilder::max_tokens
max_tokens(value) ==
    /\ Accumulating({ "Llm" })
    /\ b' = Some(set_field(Unwrap(b), "max_tokens", value))
    /\ UNCHANGED <<span, calls>>
    /\ ConfigIdle

\* LlmSpanBuilder::frequency_penalty
frequency_penalty(value) ==
    /\ Accumulating({ "Llm" })
    /\ b' = Some(set_field(Unwrap(b), "frequency_penalty", value))
    /\ UNCHANGED <<span, calls>>
    /\ ConfigIdle

\* LlmSpanBuilder::presence_penalty
presence_penalty(value) ==
    /\ Accumulating({ "Llm" })
    /\ b' = Some(set_field(Unwrap(b), "presence_penalty", value))
    /\ UNCHANGED <<span, calls>>
    /\ ConfigIdle

\* LlmSpanBuilder::input_message
input_message(role, content) ==
    /\ Accumulating({ "Llm" })
    /\ b' = Some(push_field(Unwrap(b), "input_messages", <<role, content>>))
    /\ UNCHANGED <<span, calls>>
    /\ ConfigIdle

\* LlmSpanBuilder::invocation_parameters
invocation_parameters(value) ==
    /\ Accumulating({ "Llm" })
    /\ b' = Some(set_field(Unwrap(b), "invocation_parameters", value))
    /\ UNCHANGED <<span, calls>>
    /\ ConfigIdle

\* input_value of the Llm, Embedding, Tool, Agent, Guardrail and Evaluator builders
input_value(value) ==
    /\ Accumulating({ "Llm", "Embedding", "Tool", "Agent", "Guardrail", "Evaluator" })
    /\ b' = Some(set_field(Unwrap(b), "input_value", value))
    /\ UNCHANGED <<span, calls>>
    /\ ConfigIdle

\* output_value of the Llm, Tool, Agent, Guardrail and Evaluator builders
output_value(value) ==
    /\ Accumulating({ "Llm", "Tool", "Agent", "Guardrail", "Evaluator" })
    /\ b' = Some(set_field(Unwrap(b), "output_value", value))
    /\ UNCHANGED <<span, calls>>
    /\ ConfigIdle

\* tool callable on a builder that build has consumed
tool_on_finalized(json_schema) ==
    /\ IsSome(b)
    /\ Unwrap(b).kind = "Llm"
    /\ Accumulation(Unwrap(b)) < MaxSetters
    /\ b' = Some(push_field(Unwrap(b), "tools", json_schema))
    /\ UNCHANGED <<span, calls>>
    /\ ConfigIdle

\* LlmSpanBuilder::tool
tool(json_schema) ==
    /\ Accumulating({ "Llm" })
    /\ b' = Some(push_field(Unwrap(b), "tools", json_schema))
    /\ UNCHANGED <<span, calls>>
    /\ ConfigIdle

\* EmbeddingSpanBuilder::text
text(value) ==
    /\ Accumulating({ "Embedding" })
    /\ b' = Some(push_field(Unwrap(b), "texts", value))
    /\ UNCHANGED <<span, calls>>
    /\ ConfigIdle

\* EmbeddingSpanBuilder::texts
texts(values) ==
    /\ Accumulating({ "Embedding" })
    /\ b' = Some(extend_field(Unwrap(b), "texts", values))
    /\ UNCHANGED <<span, calls>>
    /\ ConfigIdle

\* ChainSpanBuilder::input
input(value) ==
    /\ Accumulating({ "Chain" })
    /\ b' = Some(set_field(Unwrap(b), "input_value", value))
    /\ UNCHANGED <<span, calls>>
    /\ ConfigIdle

\* ChainSpanBuilder::input_mime_type
input_mime_type(mime_type) ==
    /\ Accumulating({ "Chain" })
    /\ b' = Some(set_field(Unwrap(b), "input_mime_type", mime_type))
    /\ UNCHANGED <<span, calls>>
    /\ ConfigIdle

\* ChainSpanBuilder::output
output(value) ==
    /\ Accumulating({ "Chain" })
    /\ b' = Some(set_field(Unwrap(b), "output_value", value))
    /\ UNCHANGED <<span, calls>>
    /\ ConfigIdle

\* ChainSpanBuilder::output_mime_type
output_mime_type(mime_type) ==
    /\ Accumulating({ "Chain" })
    /\ b' = Some(set_field(Unwrap(b), "output_mime_type", mime_type))
    /\ UNCHANGED <<span, calls>>
    /\ ConfigIdle

\* ToolSpanBuilder::description
description(value) ==
    /\ Accumulating({ "Tool" })
    /\ b' = Some(set_field(Unwrap(b), "description", value))
    /\ UNCHANGED <<span, calls>>
    /\ ConfigIdle

\* ToolSpanBuilder::parameters
parameters(value) ==
    /\ Accumulating({ "Tool" })
    /\ b' = Some(set_field(Unwrap(b), "parameters", value))
    /\ UNCHANGED <<span, calls>>
    /\ ConfigIdle

\* RetrieverSpanBuilder::query, RerankerSpanBuilder::query
query(value) ==
    /\ Accumulating({ "Retriever", "Reranker" })
    /\ b' = Some(set_field(Unwrap(b), "query", value))
    /\ UNCHANGED <<span, calls>>
    /\ ConfigIdle

\* RerankerSpanBuilder::input_document
input_document(doc) ==
    /\ Accumulating({ "Reranker" })
    /\ b' = Some(push_field(Unwrap(b), "input_documents", doc))
    /\ UNCHANGED <<span, calls>>
    /\ ConfigIdle

\* XSpanBuilder::build(self): the span goes to the sink, once
build ==
    /\ IsSome(b)
    /\ span = None
    /\ span' = Some(SpanBuilder_build(Unwrap(b)))
    /\ UNCHANGED <<b, calls>>
    /\ ConfigIdle

Next ==
    \/ \E kind \in SpanKinds : new(kind, ExampleName(kind))
    \/ \E c \in Configs : config(c)
    \/ \E value \in Labels : provider(value)
    \/ \E value \in Labels : system(value)
    \/ \E value \in Floats : temperature(value)
    \/ \E value \in Floats : top_p(value)
    \/ \E value \in Ints : top_k(value)
    \/ \E value \in Ints : max_tokens(value)
    \/ \E value \in Floats : frequency_penalty(value)
    \/ \E value \in Floats : presence_penalty(value)
    \/ \E role \in Roles, content \in Contents : input_message(role, content)
    \/ \E value \in Contents : invocation_parameters(value)
    \/ \E value \in Contents : input_value(value)
    \/ \E value \in Contents : output_value(value)
    \/ \E json_schema \in Labels : tool(json_schema)
    \/ \E value \in Contents : text(value)
    \/ \E values \in TextLists : texts(values)
    \/ \E value \in Contents : input(value)
    \/ \E mime_type \in MimeTypes : input_mime_type(mime_type)
    \/ \E value \in Contents : output(value)
    \/ \E mime_type \in MimeTypes : output_mime_type(mime_type)
    \/ \E value \in Labels : description(value)
    \/ \E value \in Labels : parameters(value)
    \/ \E value \in Contents : query(value)
    \/ \E doc \in Documents : input_document(doc)
    \/ build

Spec == Init /\ [][Next]_vars

(***************************************************************************)
(* Properties of the span builders                                         *)
(***************************************************************************)
Built == IsSome(b) /\ IsSome(span)

\* attribute key of the span carries the string v
Carries(key, v) ==
    /\ key \in DOMAIN Unwrap(span).attrs
    /\ Unwrap(span).attrs[key] = <<"String", v>>

\* a content value as it must be emitted under hide decision hidden
Emitted(hidden, v) == IF hidden THEN "__REDACTED__" ELSE v

HasField(s, f) == f \in DOMAIN s /\ IsSome(s[f])

\* C1: for every builder kind and configuration, a content field that was set
\* is emitted by build as exactly "__REDACTED__" when its governing switch is
\* true (input.value: hide_inputs; output.value: hide_outputs;
\* llm.invocation_parameters: hide_llm_invocation_parameters; embedding text:
\* hide_embeddings_text; reranker query and input document content:
\* hide_inputs), whatever the value was, and verbatim when the switch is false.
C1_HiddenContentIsTheMarker ==
    Built =>
        LET s == Unwrap(b)
            c == s.config
        IN  /\ HasField(s, "input_value") =>
                 Carries("input.value", Emitted(c.hide_inputs, Unwrap(s.input_value)))
            /\ s.kind = "Retriever" /\ HasField(s, "query") =>
                 Carries("input.value", Emitted(c.hide_inputs, Unwrap(s.query)))
            /\ HasField(s, "output_value") =>
                 Carries("output.value", Emitted(c.hide_outputs, Unwrap(s.output_value)))
            /\ HasField(s, "invocation_parameters") =>
                 Carries("llm.invocation_parameters",
                         Emitted(c.hide_llm_invocation_parameters,
                                 Unwrap(s.invocation_parameters)))
            /\ s.kind = "Embedding" =>
                 \A i \in 1..Len(s.texts) :
                     Carries("embedding.embeddings." \o ToString(i - 1)
                                 \o ".embedding.text",
                             Emitted(c.hide_embeddings_text, s.texts[i]))
            /\ s.kind = "Reranker" /\ HasField(s, "query") =>
                 Carries("reranker.query", Emitted(c.hide_inputs, Unwrap(s.query)))
            /\ s.kind = "Reranker" =>
                 \A i \in 1..Len(s.input_documents) :
                     Carries("reranker.input_documents." \o ToString(i - 1)
                                 \o ".document.content",
                             Emitted(c.hide_inputs, s.input_documents[i].content))

\* a reranker built under hide_inputs whose query was the marker itself and
\* whose first document had empty content
C1_Witness ==
    /\ Built
    /\ Unwrap(b).kind = "Reranker"
    /\ Unwrap(b).config.hide_inputs
    /\ Unwrap(b).query = Some("__REDACTED__")
    /\ Len(Unwrap(b).input_documents) = 1
    /\ Unwrap(b).input_documents[1].content = ""
    /\ Carries("reranker.query", "__REDACTED__")
    /\ Carries("reranker.input_documents.0.document.content", "__REDACTED__")

\* C2: for the input message (role, content) at position i of an LLM builder:
\* with hide_inputs or hide_input_messages both the role and the content
\* attribute are "__REDACTED__"; with neither but hide_input_text the role is
\* verbatim and the content "__REDACTED__"; with none both are verbatim.
C2_InputMessageAsymmetry ==
    Built /\ Unwrap(b).kind = "Llm" =>
        LET s == Unwrap(b)
            c == s.config
        IN  \A i \in 1..Len(s.input_messages) :
                LET role == s.input_messages[i][1]
                    content == s.input_messages[i][2]
                    role_key == "llm.input_messages." \o ToString(i - 1)
                                    \o ".message.role"
                    content_key == "llm.input_messages." \o ToString(i - 1)
                                       \o ".message.content"
                IN  IF c.hide_inputs \/ c.hide_input_messages
                    THEN /\ Carries(role_key, "__REDACTED__")
                         /\ Carries(content_key, "__REDACTED__")
                    ELSE IF c.hide_input_text
                    THEN /\ Carries(role_key, role)
                         /\ Carries(content_key, "__REDACTED__")
                    ELSE /\ Carries(role_key, role)
                         /\ Carries(content_key, content)

\* ("system", "secret") then ("user", "secret") built with only
\* hide_input_text on
C2_Witness ==
    /\ Built
    /\ Unwrap(b).kind = "Llm"
    /\ Unwrap(b).input_messages = << <<"system", "secret">>, <<"user", "secret">> >>
    /\ SwitchesOn(Unwrap(b).config) = {"hide_input_text"}
    /\ Carries("llm.input_messages.0.message.role", "system")
    /\ Carries("llm.input_messages.0.message.content", "__REDACTED__")
    /\ Carries("llm.input_messages.1.message.role", "user")
    /\ Carries("llm.input_messages.1.message.content", "__REDACTED__")

\* key starts with prefix
StartsWith(key, prefix) ==
    Len(key) >= Len(prefix) /\ SubSeq(key, 1, Len(prefix)) = prefix

\* the attribute keys of the span that start with prefix
GroupKeys(prefix) == { k \in DOMAIN Unwrap(span).attrs : StartsWith(k, prefix) }

\* attribute key of the span holds the tagged value
Holds(key, value) ==
    key \in DOMAIN Unwrap(span).attrs /\ Unwrap(span).attrs[key] = value

\* C11: for the lists a builder accumulates (LLM input messages, LLM tools,
\* embedding texts, reranker input documents) holding n elements, build emits
\* attribute groups at exactly the indices 0..n-1, the group at index i made
\* from the i-th inserted element (equal elements included); for n = 0 the
\* span has no attribute of that group.
C11_IndexFidelity ==
    Built =>
        LET s == Unwrap(b)
            c == s.config
            Index(list) == 0..(Len(list) - 1)
        IN  /\ s.kind = "Llm" =>
                 LET hide_messages == c.hide_inputs \/ c.hide_input_messages
                     hide_text == hide_messages \/ c.hide_input_text
                     role_key(i) == "llm.input_messages." \o ToString(i)
                                        \o ".message.role"
                     content_key(i) == "llm.input_messages." \o ToString(i)
                                           \o ".message.content"
                     schema_key(i) == "llm.tools." \o ToString(i) \o ".tool.json_schema"
                 IN  /\ GroupKeys("llm.input_messages.") =
                            UNION { { role_key(i), content_key(i) } :
                                    i \in Index(s.input_messages) }
                     /\ \A i \in Index(s.input_messages) :
                            /\ Carries(role_key(i),
                                       Emitted(hide_messages, s.input_messages[i + 1][1]))
                            /\ Carries(content_key(i),
                                       Emitted(hide_text, s.input_messages[i + 1][2]))
                     /\ GroupKeys("llm.tools.") = { schema_key(i) : i \in Index(s.tools) }
                     /\ \A i \in Index(s.tools) : Carries(schema_key(i), s.tools[i + 1])
            /\ s.kind = "Embedding" =>
                 LET text_key(i) == "embedding.embeddings." \o ToString(i)
                                        \o ".embedding.text"
                 IN  /\ GroupKeys("embedding.embeddings.") =
                            { text_key(i) : i \in Index(s.texts) }
                     /\ \A i \in Index(s.texts) :
                            Carries(text_key(i),
                                    Emitted(c.hide_embeddings_text, s.texts[i + 1]))
            /\ s.kind = "Reranker" =>
                 LET docs == s.input_documents
                     key(i, field) == "reranker.input_documents." \o ToString(i)
                                          \o ".document." \o field
                 IN  /\ GroupKeys("reranker.input_documents.") =
                            { key(i, "content") : i \in Index(docs) }
                            \cup { key(i, "id") : i \in { j \in Index(docs) :
                                                           docs[j + 1].id # <<>> } }
                            \cup { key(i, "score") : i \in { j \in Index(docs) :
                                                              docs[j + 1].score # <<>> } }
                     /\ \A i \in Index(docs) :
                            /\ Carries(key(i, "content"),
                                       Emitted(c.hide_inputs, docs[i + 1].content))
                            /\ docs[i + 1].id # <<>> =>
                                   Carries(key(i, "id"), docs[i + 1].id[1])
                            /\ docs[i + 1].score # <<>> =>
                                   Holds(key(i, "score"), <<"F64", docs[i + 1].score[1]>>)

\* an LLM builder given the same tool schema twice, and no input message
C11_Witness ==
    /\ Built
    /\ Unwrap(b).kind = "Llm"
    /\ Unwrap(b).tools = <<"openai", "openai">>
    /\ Unwrap(b).input_messages = <<>>
    /\ GroupKeys("llm.tools.") =
           { "llm.tools.0.tool.json_schema", "llm.tools.1.tool.json_schema" }
    /\ GroupKeys("llm.input_messages.") = {}

\* the attributes outside the GenAI vocabulary
Primary(attrs) ==
    [ k \in { j \in DOMAIN attrs : ~StartsWith(j, "gen_ai.") } |-> attrs[k] ]

\* C12: an LLM builder with emit_gen_ai_attributes false builds a span with no
\* attribute whose key starts with "gen_ai.", and its other attributes are
\* exactly those built with the flag true; with the flag true
\* gen_ai.request.model is emitted, gen_ai.provider.name and gen_ai.system iff
\* provider / system were set, and each gen_ai.request sampling parameter iff
\* it was set.
C12_DualVocabularyIndependence ==
    Built /\ Unwrap(b).kind = "Llm" =>
        LET s == Unwrap(b)
            flipped == [s EXCEPT !.config.emit_gen_ai_attributes = ~@]
            OptionalKeys ==
                [ provider |-> "gen_ai.provider.name",
                  system |-> "gen_ai.system",
                  temperature |-> "gen_ai.request.temperature",
                  top_p |-> "gen_ai.request.top_p",
                  top_k |-> "gen_ai.request.top_k",
                  max_tokens |-> "gen_ai.request.max_tokens",
                  frequency_penalty |-> "gen_ai.request.frequency_penalty",
                  presence_penalty |-> "gen_ai.request.presence_penalty" ]
        IN  /\ Primary(Unwrap(span).attrs) = Primary(LlmSpanBuilder_build(flipped).attrs)
            /\ { "openinference.span.kind", "llm.model_name" }
                   \subseteq DOMAIN Primary(Unwrap(span).attrs)
            /\ ~s.config.emit_gen_ai_attributes => GroupKeys("gen_ai.") = {}
            /\ s.config.emit_gen_ai_attributes =>
                   /\ GroupKeys("gen_ai.") =
                          { "gen_ai.request.model" }
                          \cup { OptionalKeys[f] : f \in { g \in DOMAIN OptionalKeys :
                                                            s[g] # <<>> } }
                   /\ Carries("gen_ai.request.model", s.model_name)
                   /\ \A f \in { "provider", "system" } :
                          s[f] # <<>> => Carries(OptionalKeys[f], s[f][1])

\* an LLM builder with provider and temperature set, built with the flag off
C12_Witness ==
    /\ Built
    /\ Unwrap(b).kind = "Llm"
    /\ ~Unwrap(b).config.emit_gen_ai_attributes
    /\ Unwrap(b).provider = <<"openai">>
    /\ Unwrap(b).temperature = <<"0.7">>
    /\ Carries("llm.provider", "openai")
    /\ GroupKeys("gen_ai.") = {}

\* the identifying string the builder was given by new()
Identity(s) == IF "model_name" \in DOMAIN s THEN s.model_name ELSE s.name

\* C16: for each of the nine builder kinds, build sets the identity attribute
\* of the kind to exactly the identifying string given to new(), under every
\* configuration: llm.model_name, embedding.model_name, reranker.model_name,
\* tool.name, agent.name, and for a chain, retriever, guardrail or evaluator an
\* attribute holding its name.
C16_IdentityAttributeIsSet ==
    Built =>
        LET s == Unwrap(b)
            IdentityKey ==
                [ Llm |-> "llm.model_name", Embedding |-> "embedding.model_name",
                  Reranker |-> "reranker.model_name", Tool |-> "tool.name",
                  Agent |-> "agent.name" ]
        IN  IF s.kind \in DOMAIN IdentityKey
            THEN Carries(IdentityKey[s.kind], Identity(s))
            ELSE \E key \in DOMAIN Unwrap(span).attrs : Carries(key, Identity(s))

\* C17: for each of the nine builder kinds, build opens the span under the
\* name "{kind in lower case} {identifying string}", whatever the
\* configuration and the optional fields.
C17_SpanNameIsKindThenName ==
    Built =>
        LET s == Unwrap(b)
            Lower ==
                [ Llm |-> "llm", Embedding |-> "embedding", Chain |-> "chain",
                  Tool |-> "tool", Retriever |-> "retriever", Agent |-> "agent",
                  Reranker |-> "reranker", Guardrail |-> "guardrail",
                  Evaluator |-> "evaluator" ]
        IN  Unwrap(span).name = Lower[s.kind] \o " " \o Identity(s)

\* C18: an Embedding builder for model m with texts t_0..t_(n-1) and no input
\* value builds exactly the attributes openinference.span.kind = "EMBEDDING",
\* embedding.model_name = m and embedding.embeddings.i.embedding.text for each
\* i in 0..n-1, each text "__REDACTED__" when hide_embeddings_text is true and
\* t_i verbatim when it is false.
C18_EmbeddingExactAttributes ==
    Built /\ Unwrap(b).kind = "Embedding" /\ Unwrap(b).input_value = <<>> =>
        LET s == Unwrap(b)
            Index == 0..(Len(s.texts) - 1)
            text_key(i) == "embedding.embeddings." \o ToString(i) \o ".embedding.text"
            expected ==
                [ k \in { "openinference.span.kind", "embedding.model_name" }
                        \cup { text_key(i) : i \in Index } |->
                    IF k = "openinference.span.kind" THEN <<"String", "EMBEDDING">>
                    ELSE IF k = "embedding.model_name" THEN <<"String", s.model_name>>
                    ELSE LET i == CHOOSE j \in Index : text_key(j) = k
                         IN  <<"String", Emitted(s.config.hide_embeddings_text,
                                                 s.texts[i + 1])>> ]
        IN  Unwrap(span).attrs = expected

\* EmbeddingSpanBuilder::new("ada-002") with hide_embeddings_text on and the
\* one text "secret"
C18_Witness ==
    /\ Built
    /\ Unwrap(b).kind = "Embedding"
    /\ Unwrap(b).model_name = "ada-002"
    /\ Unwrap(b).texts = <<"secret">>
    /\ Unwrap(b).input_value = <<>>
    /\ SwitchesOn(Unwrap(b).config) = { "hide_embeddings_text" }
    /\ Unwrap(span).attrs =
           ( "openinference.span.kind" :> <<"String", "EMBEDDING">> )
           @@ ( "embedding.model_name" :> <<"String", "ada-002">> )
           @@ ( "embedding.embeddings.0.embedding.text" :> <<"String", "__REDACTED__">> )

\* C19: a builder is accumulating until build and finalized after it, one
\* way: the setters and config() take effect only while it is accumulating
\* and write nothing to the sink, build opens the span from the accumulating
\* builder, and once the span is opened no setter and no second build takes
\* effect, so the builder opens at most one span.
C19_FinalizeIsOneWay ==
    [][ /\ IsSome(span) => b' = b /\ span' = span
        /\ b' # b => span = None /\ span' = None
        /\ span' # span => /\ span = None
                           /\ IsSome(b)
                           /\ b' = b
                           /\ span' = Some(SpanBuilder_build(Unwrap(b))) ]_vars

\* an LLM builder finalised after config() and tool()
C19_Witness ==
    /\ Built
    /\ Unwrap(b).kind = "Llm"
    /\ Unwrap(b).tools = <<"openai">>
    /\ Unwrap(b).config # TraceConfig_default
    /\ Unwrap(span) = SpanBuilder_build(Unwrap(b))

\* C21: config() replaces the configuration wholesale at any point before
\* build: the builder's configuration is the last one given (the default one
\* if none was given), whatever was given before and wherever the call sat
\* among the setters, and the span is the one a builder holding the same
\* fields under that configuration alone finalizes to.
C21_ConfigIsReplacedWholesale ==
    IsSome(b) =>
        LET s == Unwrap(b)
            last == IF cfg = None THEN TraceConfig_default ELSE Unwrap(cfg)
            refilled == [f \in DOMAIN s |-> IF f = "config" THEN last ELSE s[f]]
        IN  /\ \A f \in ConfigFields : s.config[f] = last[f]
            /\ IsSome(span) => Unwrap(span) = SpanBuilder_build(refilled)

\* an LLM builder with an input message and an invocation parameter string,
\* finalized after config() was given hide_input_text alone
C21_Witness ==
    /\ Built
    /\ Unwrap(b).kind = "Llm"
    /\ cfg # None
    /\ SwitchesOn(Unwrap(cfg)) = {"hide_input_text"}
    /\ Unwrap(b).input_messages = << <<"user", "secret">> >>
    /\ Unwrap(b).invocation_parameters = Some("secret")
    /\ Carries("llm.input_messages.0.message.role", "user")
    /\ Carries("llm.input_messages.0.message.content", "__REDACTED__")
    /\ Carries("llm.invocation_parameters", "secret")

\* the optional fields of builder s that a setter has set
FieldsSet(s) ==
    { f \in DOMAIN s \ { "kind", "name", "model_name", "config", "input_messages",
                          "tools", "texts", "input_documents" } : IsSome(s[f]) }

\* C25: for every builder kind, every configuration (emit_gen_ai_attributes
\* false included) and every optional field that a setter has set (the
\* Retriever's top_k and the LLM's temperature, top_p, top_k, max_tokens,
\* frequency_penalty and presence_penalty among them), the built span has an
\* attribute carrying the field: the value verbatim as a string, integer or
\* float, or "__REDACTED__" if the field is content that the configuration
\* hides.
C25_EverySetFieldIsEmitted ==
    Built =>
        LET s == Unwrap(b)
            attrs == Unwrap(span).attrs
            Tag(f) ==
                IF f \in { "top_k", "max_tokens" } THEN "I64"
                ELSE IF f \in { "temperature", "top_p", "frequency_penalty",
                                "presence_penalty" } THEN "F64"
                ELSE "String"
            Hidden(f) ==
                \/ f \in { "input_value", "query" } /\ s.config.hide_inputs
                \/ f = "output_value" /\ s.config.hide_outputs
                \/ f = "invocation_parameters" /\ s.config.hide_llm_invocation_parameters
        IN  \A f \in FieldsSet(s) :
                \E key \in DOMAIN attrs :
                    IF Hidden(f)
                    THEN attrs[key] = <<"String", "__REDACTED__">>
                    ELSE attrs[key] = << Tag(f), Unwrap(s[f]) >>

\* builder s with other input content in the named fields: every input value
\* and query that was set, the content of every input message and of every
\* reranker input document, every embedding text
WithOtherContent(s, fields) ==
    [ f \in DOMAIN s |->
        IF f \notin fields THEN s[f]
        ELSE IF f \in { "input_value", "query" }
             THEN IF IsSome(s[f]) THEN Some("other") ELSE None
        ELSE IF f = "input_messages"
             THEN [ i \in 1..Len(s[f]) |-> << s[f][i][1], "other" >> ]
        ELSE IF f = "input_documents"
             THEN [ i \in 1..Len(s[f]) |-> [s[f][i] EXCEPT !.content = "other"] ]
        ELSE [ i \in 1..Len(s[f]) |-> "other" ] ]

\* C27 as stated: with hide_inputs true, the span that a builder of any kind
\* finalizes to does not depend on the input content supplied: the input
\* value, the retriever or reranker query, an input message's content, a
\* reranker input document's content, an embedding text.  The same builder
\* with other content in these fields finalizes to the same attributes.
C27_HideInputsHidesAllInputContent ==
    Built /\ Unwrap(b).config.hide_inputs =>
        Unwrap(span).attrs =
            SpanBuilder_build(WithOtherContent(Unwrap(b),
                { "input_value", "query", "input_messages", "input_documents",
                  "texts" })).attrs

\* C27 amended: with hide_inputs true, the finalized attributes do not depend
\* on the input value, the retriever or reranker query, the content of an
\* input message or the content of a reranker input document.  An embedding
\* text is a category of its own: the attributes do not depend on it when
\* hide_embeddings_text is true, and carry it verbatim when
\* hide_embeddings_text is false, whatever hide_inputs is.
C27_HideInputsHidesInputContent ==
    Built =>
        LET s == Unwrap(b)
            attrs == Unwrap(span).attrs
        IN  /\ s.config.hide_inputs =>
                  attrs = SpanBuilder_build(WithOtherContent(s,
                              { "input_value", "query", "input_messages",
                                "input_documents" })).attrs
            /\ "texts" \in DOMAIN s =>
                  IF s.config.hide_embeddings_text
                  THEN attrs = SpanBuilder_build(WithOtherContent(s, { "texts" })).attrs
                  ELSE \A i \in 1..Len(s.texts) :
                          attrs[embedding_embeddings_text(i - 1)] = <<"String", s.texts[i]>>

\* a reranker span built under hide_inputs alone from a query and an input
\* document with content
C27_Witness ==
    /\ Built
    /\ Unwrap(b).kind = "Reranker"
    /\ Unwrap(b).config.hide_inputs /\ ~Unwrap(b).config.hide_embeddings_text
    /\ Unwrap(b).query = Some("secret")
    /\ Len(Unwrap(b).input_documents) = 1
    /\ Unwrap(b).input_documents[1].content = "secret"

(***************************************************************************)
(* span_builder.rs: the post-hoc recording functions.  sp is the span,     *)
(* the result is the span after the call.                                  *)
(***************************************************************************)
\* for (i, doc) in documents.iter().enumerate(), from index i on
RECURSIVE record_reranker_output_documents_from(_, _, _, _)
record_reranker_output_documents_from(attrs, documents, c, i) ==
    IF i >= Len(documents) THEN attrs
    ELSE LET doc == documents[i + 1]
             d1 == IF IsSome(doc.id)
                   THEN set_attribute(attrs, reranker_output_documents_id(i),
                                      String(Unwrap(doc.id)))
                   ELSE attrs
             d2 == IF ~c.hide_outputs
                   THEN set_attribute(d1, reranker_output_documents_content(i),
                                      String(doc.content))
                   ELSE set_attribute(d1, reranker_output_documents_content(i),
                                      String(REDACTED))
             d3 == IF IsSome(doc.score)
                   THEN set_attribute(d2, reranker_output_documents_score(i),
                                      F64(Unwrap(doc.score)))
                   ELSE d2
         IN  record_reranker_output_documents_from(d3, documents, c, i + 1)

record_reranker_output_documents(sp, documents, c) ==
    [sp EXCEPT !.attrs = record_reranker_output_documents_from(@, documents, c, 0)]

\* An i64 the code computes with is kept at its width: two's complement in
\* four 16-bit limbs, most significant first.  i64(n) is the i64 of a small
\* natural number n.
i64(n) == << 0, 0, n \div 65536, n % 65536 >>

\* x + y on i64: the sum modulo 2^64, and whether the sum left the i64 range
\* (both operands of one sign and the wrapped sum of the other).  On overflow
\* a build with overflow checks panics and a build without them wraps.
i64_add(x, y) ==
    LET s4 == x[4] + y[4]
        s3 == x[3] + y[3] + s4 \div 65536
        s2 == x[2] + y[2] + s3 \div 65536
        s1 == x[1] + y[1] + s2 \div 65536
        wrapped == << s1 % 65536, s2 % 65536, s3 % 65536, s4 % 65536 >>
        negative(v) == v[1] >= 32768
    IN  [ wrapped |-> wrapped,
          overflow |-> negative(x) = negative(y) /\ negative(wrapped) # negative(x) ]

\* the call when the addition returns
record_token_usage(sp, prompt_tokens, completion_tokens) ==
    LET total_tokens == i64_add(prompt_tokens, completion_tokens).wrapped
        a1 == set_attribute(sp.attrs, attributes.llm.token_count.PROMPT, I64(prompt_tokens))
        a2 == set_attribute(a1, attributes.llm.token_count.COMPLETION, I64(completion_tokens))
        a3 == set_attribute(a2, attributes.llm.token_count.TOTAL, I64(total_tokens))
        a4 == set_attribute(a3, gen_ai.usage.INPUT_TOKENS, I64(prompt_tokens))
        a5 == set_attribute(a4, gen_ai.usage.OUTPUT_TOKENS, I64(completion_tokens))
    IN  [sp EXCEPT !.attrs = a5]

\* record_output_message asking the input-side queries of the configuration
record_output_message_input_side(sp, index, role, content, c) ==
    LET hide_messages == should_hide_input_messages(c)
        hide_text == should_hide_input_text(c)
        attrs == sp.attrs
        after ==
          IF hide_messages
          THEN set_attribute(
                 set_attribute(attrs, llm_output_messages_role(index), String(REDACTED)),
                 llm_output_messages_content(index), String(REDACTED))
          ELSE LET a1 == set_attribute(attrs, llm_output_messages_role(index),
                                       String(role))
               IN  IF hide_text
                   THEN set_attribute(a1, llm_output_messages_content(index),
                                      String(REDACTED))
                   ELSE set_attribute(a1, llm_output_messages_content(index),
                                      String(content))
    IN  [sp EXCEPT !.attrs = after]

record_output_message(sp, index, role, content, c) ==
    LET hide_messages == should_hide_output_messages(c)
        hide_text == should_hide_output_text(c)
        attrs == sp.attrs
        after ==
          IF hide_messages
          THEN set_attribute(
                 set_attribute(attrs, llm_output_messages_role(index), String(REDACTED)),
                 llm_output_messages_content(index), String(REDACTED))
          ELSE LET a1 == set_attribute(attrs, llm_output_messages_role(index),
                                       String(role))
               IN  IF hide_text
                   THEN set_attribute(a1, llm_output_messages_content(index),
                                      String(REDACTED))
                   ELSE set_attribute(a1, llm_output_messages_content(index),
                                      String(content))
    IN  [sp EXCEPT !.attrs = after]

record_output_tool_call(sp, message_index, call_index, tool_call_id, function_name, function_arguments) ==
    LET a1 == set_attribute(sp.attrs,
                  llm_output_messages_tool_calls_id(message_index, call_index),
                  String(tool_call_id))
        a2 == set_attribute(a1,
                  llm_output_messages_tool_calls_function_name(message_index, call_index),
                  String(function_name))
        a3 == set_attribute(a2,
                  llm_output_messages_tool_calls_function_arguments(message_index,
                                                                    call_index),
                  String(function_arguments))
    IN  [sp EXCEPT !.attrs = a3]

\* for (i, doc) in documents.iter().enumerate(), from index i on
RECURSIVE record_retrieval_documents_from(_, _, _, _)
record_retrieval_documents_from(attrs, documents, c, i) ==
    IF i >= Len(documents) THEN attrs
    ELSE LET doc == documents[i + 1]
             d1 == IF IsSome(doc.id)
                   THEN set_attribute(attrs, retrieval_documents_id(i),
                                      String(Unwrap(doc.id)))
                   ELSE attrs
             d2 == IF ~c.hide_outputs
                   THEN set_attribute(d1, retrieval_documents_content(i),
                                      String(doc.content))
                   ELSE set_attribute(d1, retrieval_documents_content(i),
                                      String(REDACTED))
             d3 == IF IsSome(doc.score)
                   THEN set_attribute(d2, retrieval_documents_score(i),
                                      F64(Unwrap(doc.score)))
                   ELSE d2
         IN  record_retrieval_documents_from(d3, documents, c, i + 1)

\* record_retrieval_documents dropping the document attributes already on
\* the span before it writes
record_retrieval_documents_clearing(sp, documents, c) ==
    LET kept == { k \in DOMAIN sp.attrs :
                    ~(Len(k) >= 20 /\ SubSeq(k, 1, 20) = "retrieval.documents.") }
    IN  [sp EXCEPT !.attrs = record_retrieval_documents_from(
                                 [k \in kept |-> sp.attrs[k]], documents, c, 0)]

record_retrieval_documents(sp, documents, c) ==
    [sp EXCEPT !.attrs = record_retrieval_documents_from(@, documents, c, 0)]

record_error(sp, error_type, message) ==
    LET a1 == set_attribute(sp.attrs, attributes.exception.TYPE, String(error_type))
        a2 == set_attribute(a1, attributes.exception.MESSAGE, String(message))
    IN  [sp EXCEPT !.attrs = a2]

\* record_output_value leaving an output value that is already there
record_output_value_keep_first(sp, value, c) ==
    IF attributes.output.VALUE \in DOMAIN sp.attrs
    THEN sp
    ELSE [sp EXCEPT !.attrs = set_attribute(@, attributes.output.VALUE,
                                            String(IF c.hide_outputs THEN REDACTED ELSE value))]

\* record_output_value writing nothing when the output is hidden
record_output_value_omitting_hidden(sp, value, c) ==
    IF ~c.hide_outputs
    THEN [sp EXCEPT !.attrs = set_attribute(@, attributes.output.VALUE, String(value))]
    ELSE sp

record_output_value(sp, value, c) ==
    IF ~c.hide_outputs
    THEN [sp EXCEPT !.attrs = set_attribute(@, attributes.output.VALUE, String(value))]
    ELSE [sp EXCEPT !.attrs = set_attribute(@, attributes.output.VALUE, String(REDACTED))]

(***************************************************************************)
(* Specification SpecRecord: the recording functions called on a span that *)
(* a builder has opened.  cfg is the configuration in use: the builder was *)
(* given it.  A recording function that takes a configuration is supplied  *)
(* one with each call, and calls keeps it with the arguments.              *)
(***************************************************************************)
\* recording calls made on one span
MaxRecords == 2

\* builders with fields set: a chain with its values and MIME types, a
\* reranker with a query and two documents
Prepared ==
    { set_field(set_field(set_field(set_field(
          ChainSpanBuilder_new(ExampleName("Chain")),
          "input_value", "question"), "input_mime_type", "application/json"),
          "output_value", "answer"), "output_mime_type", "text/plain"),
      push_field(push_field(set_field(
          RerankerSpanBuilder_new(ExampleName("Reranker")), "query", "question"),
          "input_documents", Document(Some("doc-7"), "passage", Some("0.5"))),
          "input_documents", Document(None, "passage", None)) }

\* the fields of TraceConfig that the recording functions read, directly or
\* through should_hide_output_messages and should_hide_output_text, and
\* emit_gen_ai_attributes, read when the span was built
RecordSwitches ==
    { "hide_outputs", "hide_output_messages", "hide_output_text",
      "emit_gen_ai_attributes" }

\* the configurations supplied to the recording calls on one span: the one in
\* use, and the one that differs from it in hide_outputs
Supplied == { Unwrap(cfg), [Unwrap(cfg) EXCEPT !.hide_outputs = ~@] }

Indexes == { 0, 1 }

OutputRoles == { "assistant" }

OutputContents == { "secret", "" }

ToolArguments == { "{\"location\": \"Paris\"}" }

DocumentLists ==
    { << Document(Some("doc-1"), "secret", Some("0.9")), Document(None, "", None) >>,
      << Document(Some("doc-2"), REDACTED, None) >> }

TokenCounts == { << i64(10), i64(20) >> }

InitRecord ==
    /\ env = EmptyEnv
    /\ tcb = TraceConfigBuilder_default
    /\ cfg \in { Some(c) : c \in Toggled(RecordSwitches) }
    /\ how = "given"
    /\ derived = None
    /\ b \in { Some([s EXCEPT !.config = Unwrap(cfg)]) :
                 s \in { SpanBuilder_new(kind, ExampleName(kind)) :
                             kind \in SpanKinds \ { p.kind : p \in Prepared } }
                       \cup Prepared }
    /\ span = Some(SpanBuilder_build(Unwrap(b)))
    /\ calls = <<>>

\* the span is open and may take one more recording call: no call on it has
\* panicked
Recording ==
    /\ IsSome(span)
    /\ how # "none"
    /\ Len(calls) < MaxRecords
    /\ \A n \in 1..Len(calls) : "panicked" \in DOMAIN calls[n] => ~calls[n].panicked

\* record_token_usage: when the addition overflows, the call panics before it
\* has written anything, or goes on with the wrapped sum
RecordTokenUsage(prompt_tokens, completion_tokens) ==
    /\ Recording
    /\ \E panicked \in IF i64_add(prompt_tokens, completion_tokens).overflow
                        THEN BOOLEAN ELSE { FALSE } :
         /\ span' = IF panicked
                    THEN span
                    ELSE Some(record_token_usage(Unwrap(span), prompt_tokens,
                                                 completion_tokens))
         /\ calls' = Append(calls, [ op |-> "record_token_usage",
                                     prompt_tokens |-> prompt_tokens,
                                     completion_tokens |-> completion_tokens,
                                     panicked |-> panicked ])
    /\ UNCHANGED b
    /\ ConfigIdle

RecordOutputMessage(index, role, content, c) ==
    /\ Recording
    /\ span' = Some(record_output_message(Unwrap(span), index, role, content, c))
    /\ calls' = Append(calls, [ op |-> "record_output_message", index |-> index,
                                role |-> role, content |-> content, config |-> c ])
    /\ UNCHANGED b
    /\ ConfigIdle

RecordOutputToolCall(message_index, call_index, tool_call_id, function_name, function_arguments) ==
    /\ Recording
    /\ span' = Some(record_output_tool_call(Unwrap(span), message_index, call_index,
                        tool_call_id, function_name, function_arguments))
    /\ calls' = Append(calls, [ op |-> "record_output_tool_call",
                                message_index |-> message_index,
                                call_index |-> call_index,
                                tool_call_id |-> tool_call_id,
                                function_name |-> function_name,
                                function_arguments |-> function_arguments ])
    /\ UNCHANGED b
    /\ ConfigIdle

RecordRetrievalDocuments(documents, c) ==
    /\ Recording
    /\ span' = Some(record_retrieval_documents(Unwrap(span), documents, c))
    /\ calls' = Append(calls, [ op |-> "record_retrieval_documents",
                                documents |-> documents, config |-> c ])
    /\ UNCHANGED b
    /\ ConfigIdle

RecordRerankerOutputDocuments(documents, c) ==
    /\ Recording
    /\ span' = Some(record_reranker_output_documents(Unwrap(span), documents, c))
    /\ calls' = Append(calls, [ op |-> "record_reranker_output_documents",
                                documents |-> documents, config |-> c ])
    /\ UNCHANGED b
    /\ ConfigIdle

RecordError(error_type, message) ==
    /\ Recording
    /\ span' = Some(record_error(Unwrap(span), error_type, message))
    /\ calls' = Append(calls, [ op |-> "record_error", error_type |-> error_type,
                                message |-> message ])
    /\ UNCHANGED b
    /\ ConfigIdle

RecordOutputValue(value, c) ==
    /\ Recording
    /\ span' = Some(record_output_value(Unwrap(span), value, c))
    /\ calls' = Append(calls, [ op |-> "record_output_value", value |-> value,
                                config |-> c ])
    /\ UNCHANGED b
    /\ ConfigIdle

NextRecord ==
    \/ \E t \in TokenCounts : RecordTokenUsage(t[1], t[2])
    \/ \E index \in Indexes, role \in OutputRoles, content \in OutputContents,
              c \in Supplied :
           RecordOutputMessage(index, role, content, c)
    \/ \E message_index \in Indexes, function_arguments \in ToolArguments :
           RecordOutputToolCall(message_index, 0, "call_1", "get_weather",
                                function_arguments)
    \/ \E documents \in DocumentLists, c \in Supplied :
           RecordRetrievalDocuments(documents, c)
    \/ \E documents \in DocumentLists, c \in Supplied :
           RecordRerankerOutputDocuments(documents, c)
    \/ RecordError("TimeoutError", "timed out")
    \/ \E value \in OutputContents, c \in Supplied : RecordOutputValue(value, c)

SpecRecord == InitRecord /\ [][NextRecord]_vars

(***************************************************************************)
(* Specification SpecUsage: record_token_usage called on an open span with *)
(* token counts from the whole i64 range.                                  *)
(***************************************************************************)
\* i64::MIN, -1, 0, 1, 100, 65536, i64::MAX
I64Values ==
    { << 32768, 0, 0, 0 >>, << 65535, 65535, 65535, 65535 >>, i64(0), i64(1),
      i64(100), i64(65536), << 32767, 65535, 65535, 65535 >> }

NextUsage ==
    \E prompt_tokens \in I64Values, completion_tokens \in I64Values :
        RecordTokenUsage(prompt_tokens, completion_tokens)

SpecUsage == InitRecord /\ [][NextUsage]_vars

(***************************************************************************)
(* Properties of the recording functions                                   *)
(***************************************************************************)
LastCall == calls[Len(calls)]

\* C9: record_output_message(span, i, role, content, config): with
\* hide_outputs or hide_output_messages in config both llm.output_messages.i.message.role
\* and .content are "__REDACTED__"; with neither but hide_output_text the role
\* is verbatim and the content "__REDACTED__"; otherwise both are verbatim.
C9_OutputMessageAsymmetry ==
    how = "given" /\ calls # <<>> /\ LastCall.op = "record_output_message" =>
        LET c == LastCall.config
            role_key == "llm.output_messages." \o ToString(LastCall.index)
                            \o ".message.role"
            content_key == "llm.output_messages." \o ToString(LastCall.index)
                               \o ".message.content"
        IN  IF c.hide_outputs \/ c.hide_output_messages
            THEN /\ Carries(role_key, "__REDACTED__")
                 /\ Carries(content_key, "__REDACTED__")
            ELSE IF c.hide_output_text
            THEN /\ Carries(role_key, LastCall.role)
                 /\ Carries(content_key, "__REDACTED__")
            ELSE /\ Carries(role_key, LastCall.role)
                 /\ Carries(content_key, LastCall.content)

\* record_output_message(span, 1, "assistant", "secret", config) with only
\* hide_output_text on
C9_Witness ==
    /\ how = "given"
    /\ calls # <<>>
    /\ LastCall = [ op |-> "record_output_message", index |-> 1,
                    role |-> "assistant", content |-> "secret",
                    config |-> Unwrap(cfg) ]
    /\ SwitchesOn(Unwrap(cfg)) = {"hide_output_text"}
    /\ Carries("llm.output_messages.1.message.role", "assistant")
    /\ Carries("llm.output_messages.1.message.content", "__REDACTED__")

\* the output content handed to a recording call
Payloads(call) ==
    CASE call.op = "record_output_value" -> { call.value }
      [] call.op = "record_output_message" -> { call.content }
      [] call.op = "record_output_tool_call" -> { call.function_arguments }
      [] call.op \in { "record_retrieval_documents",
                       "record_reranker_output_documents" } ->
             { call.documents[i].content : i \in 1..Len(call.documents) }
      [] OTHER -> {}

\* C10: after any sequence of record_output_value, record_output_message,
\* record_output_tool_call, record_retrieval_documents and
\* record_reranker_output_documents calls made with hide_outputs true in the
\* configuration in use and in every configuration supplied, no output
\* payload handed to a call (output value, message content, tool-call
\* function arguments, document content) is the value of an attribute of the
\* span.
C10_NoOutputPayloadWhenHidden ==
    /\ how = "given"
    /\ Unwrap(cfg).hide_outputs
    /\ \A n \in 1..Len(calls) :
           "config" \in DOMAIN calls[n] => calls[n].config.hide_outputs
    =>  \A n \in 1..Len(calls) :
            \A payload \in Payloads(calls[n]) \ { "__REDACTED__" } :
                \A key \in DOMAIN Unwrap(span).attrs :
                    Unwrap(span).attrs[key] # <<"String", payload>>

\* C13: with emit_gen_ai_attributes false in the configuration in use, a span
\* built by the LLM builder has no gen_ai.* attribute after any sequence of
\* recording calls, record_token_usage (gen_ai.usage.input_tokens,
\* gen_ai.usage.output_tokens) included.
C13_NoGenAiWhenDisabled ==
    /\ how = "given"
    /\ Unwrap(b).kind = "Llm"
    /\ ~Unwrap(cfg).emit_gen_ai_attributes
    =>  GroupKeys("gen_ai.") = {}

C15_SpanKindIsCanonical ==
    IsSome(span) =>
        LET Canonical ==
                [ Llm |-> "LLM", Embedding |-> "EMBEDDING", Chain |-> "CHAIN",
                  Tool |-> "TOOL", Retriever |-> "RETRIEVER", Agent |-> "AGENT",
                  Reranker |-> "RERANKER", Guardrail |-> "GUARDRAIL",
                  Evaluator |-> "EVALUATOR" ]
        IN  /\ Unwrap(b).kind \in DOMAIN Canonical
            /\ Carries("openinference.span.kind", Canonical[Unwrap(b).kind])

\* an evaluator span built with every hide switch on, after record_error and
\* record_output_value
C15_Witness ==
    /\ how = "given"
    /\ Unwrap(b).kind = "Evaluator"
    /\ SwitchesOn(Unwrap(cfg)) = HideFields
    /\ Len(calls) = 2
    /\ calls[1].op = "record_error"
    /\ calls[2].op = "record_output_value"
    /\ Carries("openinference.span.kind", "EVALUATOR")

\* the span sp after the recording call with the arguments kept in call
Recorded(sp, call) ==
    CASE call.op = "record_token_usage" ->
             IF call.panicked THEN sp
             ELSE record_token_usage(sp, call.prompt_tokens, call.completion_tokens)
      [] call.op = "record_output_message" ->
             record_output_message(sp, call.index, call.role, call.content, call.config)
      [] call.op = "record_output_tool_call" ->
             record_output_tool_call(sp, call.message_index, call.call_index,
                                     call.tool_call_id, call.function_name,
                                     call.function_arguments)
      [] call.op = "record_retrieval_documents" ->
             record_retrieval_documents(sp, call.documents, call.config)
      [] call.op = "record_reranker_output_documents" ->
             record_reranker_output_documents(sp, call.documents, call.config)
      [] call.op = "record_error" -> record_error(sp, call.error_type, call.message)
      [] call.op = "record_output_value" ->
             record_output_value(sp, call.value, call.config)

\* C20: when a recording function is called twice in succession, every key
\* the second call writes holds afterwards the value the second call alone
\* would have written; a call repeated with the same arguments leaves the
\* span as it was; and output.value recorded verbatim and then with
\* hide_outputs true is "__REDACTED__", and the other way round the value.
C20_RecordingOverwrites ==
    [][ calls # <<>> /\ calls' # calls /\ calls'[Len(calls')].op = LastCall.op =>
            LET second == calls'[Len(calls')]
                alone == Recorded(info_span("alone"), second).attrs
                after == Unwrap(span').attrs
            IN  /\ \A key \in DOMAIN alone :
                       key \in DOMAIN after /\ after[key] = alone[key]
                /\ second = LastCall => span' = span
                /\ second.op = "record_output_value" =>
                       after["output.value"] =
                           <<"String", IF second.config.hide_outputs
                                       THEN "__REDACTED__" ELSE second.value>> ]_vars

\* record_output_value(span, "secret", config) with hide_outputs false and
\* then with hide_outputs true
C20_Witness ==
    /\ how = "given"
    /\ Len(calls) = 2
    /\ calls[1].op = "record_output_value"
    /\ calls[2].op = "record_output_value"
    /\ calls[1].value = "secret"
    /\ calls[2].value = "secret"
    /\ ~calls[1].config.hide_outputs
    /\ calls[2].config.hide_outputs
    /\ Carries("output.value", "__REDACTED__")

\* x + y = t as integers, for the i64 x, y and t: the limbs of x and y add up
\* to the limbs of t with exact carries, the top limb taken with its sign
Sums(x, y, t) ==
    LET top(v) == IF v[1] >= 32768 THEN v[1] - 65536 ELSE v[1]
        d4 == x[4] + y[4] - t[4]
        d3 == x[3] + y[3] - t[3] + d4 \div 65536
        d2 == x[2] + y[2] - t[2] + d3 \div 65536
        d1 == top(x) + top(y) - top(t) + d2 \div 65536
    IN  d4 % 65536 = 0 /\ d3 % 65536 = 0 /\ d2 % 65536 = 0 /\ d1 = 0

\* C22: for every pair of token counts in the i64 range, record_token_usage
\* returns without a panic and the span holds the prompt count under
\* llm.token_count.prompt and gen_ai.usage.input_tokens, the completion count
\* under llm.token_count.completion and gen_ai.usage.output_tokens, and their
\* sum as integers under llm.token_count.total.
C22_TokenUsageIsTheSum ==
    how = "given" /\ calls # <<>> /\ LastCall.op = "record_token_usage" =>
        LET p == LastCall.prompt_tokens
            c == LastCall.completion_tokens
            attrs == Unwrap(span).attrs
        IN  /\ ~LastCall.panicked
            /\ Holds("llm.token_count.prompt", <<"I64", p>>)
            /\ Holds("gen_ai.usage.input_tokens", <<"I64", p>>)
            /\ Holds("llm.token_count.completion", <<"I64", c>>)
            /\ Holds("gen_ai.usage.output_tokens", <<"I64", c>>)
            /\ "llm.token_count.total" \in DOMAIN attrs
            /\ attrs["llm.token_count.total"][1] = "I64"
            /\ Sums(p, c, attrs["llm.token_count.total"][2])

(***************************************************************************)
(* Specification SpecVocabulary: the two lookups of the vocabulary, each   *)
(* asked once: SpanKind::from_str of a string, and the mapping of a key    *)
(* into the other vocabulary and back.  calls keeps the question and the   *)
(* answers.                                                                *)
(***************************************************************************)
\* the strings given to from_str: the nine names in every casing of their
\* letters (the dotless i among the small forms of I), and strings that are
\* no name
KindStrings ==
    LET small(c) ==
            CASE c = "A" -> {"a"} [] c = "B" -> {"b"} [] c = "C" -> {"c"}
              [] c = "D" -> {"d"} [] c = "E" -> {"e"} [] c = "G" -> {"g"}
              [] c = "H" -> {"h"} [] c = "I" -> {"i", "U+0131"} [] c = "K" -> {"k"}
              [] c = "L" -> {"l"} [] c = "M" -> {"m"} [] c = "N" -> {"n"}
              [] c = "O" -> {"o"} [] c = "R" -> {"r"} [] c = "T" -> {"t"}
              [] c = "U" -> {"u"} [] c = "V" -> {"v"}
        RECURSIVE Casings(_)
        Casings(w) ==
            IF w = <<>> THEN { <<>> }
            ELSE { <<c>> \o rest : c \in {Head(w)} \cup small(Head(w)),
                                   rest \in Casings(Tail(w)) }
        Name(kind) == LET str == as_str(kind)
                      IN  [i \in 1..Len(str) |-> SubSeq(str, i, i)]
    IN  UNION { Casings(Name(kind)) : kind \in SpanKinds } \cup
        { <<>>, <<"i","n","v","a","l","i","d">>, <<"L","L">>, <<"L","L","M","S">>,
          <<" ","l","l","m">>, <<"l","l","m"," ">>, <<"C","H","A","U+0130","N">>,
          <<"L","M","L">>, <<"U+00DF","l","m">>, <<"U+017F","l","m">> }

\* the keys given to the two mapping functions: the constant keys the
\* builders write, other keys of the two vocabularies, and strings that are
\* no key
MappingKeys ==
    { attributes.OPENINFERENCE_SPAN_KIND, attributes.llm.MODEL_NAME,
      attributes.llm.SYSTEM, attributes.llm.PROVIDER,
      attributes.llm.INVOCATION_PARAMETERS, attributes.llm.token_count.PROMPT,
      attributes.llm.token_count.COMPLETION, attributes.llm.token_count.TOTAL,
      attributes.embedding.MODEL_NAME, attributes.tool.NAME,
      attributes.reranker.MODEL_NAME, attributes.input.VALUE,
      attributes.output.VALUE, attributes.agent.NAME,
      gen_ai.PROVIDER_NAME, gen_ai.SYSTEM, gen_ai.request.MODEL,
      gen_ai.request.TEMPERATURE, gen_ai.request.TOP_P, gen_ai.request.TOP_K,
      gen_ai.request.MAX_TOKENS, gen_ai.request.FREQUENCY_PENALTY,
      gen_ai.request.PRESENCE_PENALTY, gen_ai.usage.INPUT_TOKENS,
      gen_ai.usage.OUTPUT_TOKENS,
      "gen_ai.operation.name", "gen_ai.response.model", "gen_ai.agent.name",
      "gen_ai.token.type", "llm.token_count.prompt_details.cache_read",
      "unknown.attribute", "", "LLM.MODEL_NAME", "llm.model_name ",
      "gen_ai.request.Model" }

\* SpanKind::from_str(s)
FromStr(s) ==
    /\ calls = <<>>
    /\ calls' = << [ op |-> "from_str", s |-> s, result |-> from_str(s) ] >>
    /\ UNCHANGED <<b, span>>
    /\ ConfigIdle

\* map_openinference_to_gen_ai(key) and map_gen_ai_to_openinference(key), and
\* each answer mapped back by the other function
MapKey(key) ==
    /\ calls = <<>>
    /\ LET to_gen_ai == map_openinference_to_gen_ai(key)
           to_openinference == map_gen_ai_to_openinference(key)
       IN  calls' = << [ op |-> "map", key |-> key,
                         to_gen_ai |-> to_gen_ai,
                         to_openinference |-> to_openinference,
                         to_gen_ai_and_back |->
                             IF IsSome(to_gen_ai)
                             THEN map_gen_ai_to_openinference(Unwrap(to_gen_ai))
                             ELSE None,
                         to_openinference_and_back |->
                             IF IsSome(to_openinference)
                             THEN map_openinference_to_gen_ai(Unwrap(to_openinference))
                             ELSE None ] >>
    /\ UNCHANGED <<b, span>>
    /\ ConfigIdle

NextVocabulary ==
    \/ \E s \in KindStrings : FromStr(s)
    \/ \E key \in MappingKeys : MapKey(key)

SpecVocabulary == Init /\ [][NextVocabulary]_vars

(***************************************************************************)
(* Properties of the vocabulary                                            *)
(***************************************************************************)
\* the characters of a string
Chars(str) == [i \in 1..Len(str) |-> SubSeq(str, i, i)]

\* s is the string canonical in some casing: letter by letter the capital of
\* canonical or its small form, the small forms of I being i and the dotless i
CaseVariant(s, canonical) ==
    LET Capitals == "ABCDEFGHIJKLMNOPQRSTUVWXYZ"
        Smalls == "abcdefghijklmnopqrstuvwxyz"
        same(c, d) ==
            \/ c = d
            \/ \E i \in 1..26 : SubSeq(Capitals, i, i) = d /\ SubSeq(Smalls, i, i) = c
            \/ d = "I" /\ c = "U+0131"
    IN  /\ Len(s) = Len(canonical)
        /\ \A i \in 1..Len(s) : same(s[i], SubSeq(canonical, i, i))

C24_MappingIsOneToOne ==
    calls # <<>> /\ LastCall.op = "map" =>
        LET Pairs == { <<"llm.model_name", "gen_ai.request.model">>,
                       <<"llm.provider", "gen_ai.provider.name">>,
                       <<"llm.system", "gen_ai.system">>,
                       <<"llm.token_count.prompt", "gen_ai.usage.input_tokens">>,
                       <<"llm.token_count.completion", "gen_ai.usage.output_tokens">> }
            key == LastCall.key
        IN  /\ \A pair \in Pairs :
                   /\ key = pair[1] =>
                          /\ LastCall.to_gen_ai = <<pair[2]>>
                          /\ LastCall.to_gen_ai_and_back = <<key>>
                   /\ key = pair[2] =>
                          /\ LastCall.to_openinference = <<pair[1]>>
                          /\ LastCall.to_openinference_and_back = <<key>>
            /\ key \notin { pair[1] : pair \in Pairs } => LastCall.to_gen_ai = <<>>
            /\ key \notin { pair[2] : pair \in Pairs } => LastCall.to_openinference = <<>>

\* gen_ai.system was asked: it maps to llm.system and back to itself, and has
\* no image in its own vocabulary
C24_Witness ==
    /\ calls # <<>>
    /\ LastCall.op = "map"
    /\ LastCall.key = "gen_ai.system"
    /\ LastCall.to_openinference = <<"llm.system">>
    /\ LastCall.to_openinference_and_back = <<"gen_ai.system">>
    /\ LastCall.to_gen_ai = <<>>

(***************************************************************************)
(* Specification SpecShare: one TraceConfig, constructed once and then     *)
(* shared by the queries, a span builder and the recording functions,      *)
(* while the process goes on changing its environment (config.rs tests:    *)
(* env::set_var before the construction, env::remove_var after it).        *)
(***************************************************************************)
\* env::set_var(key, value) or env::remove_var(key) once a TraceConfig exists
ChangeVar(key, value) ==
    /\ how # "none"
    /\ env[key] # value
    /\ env' = [env EXCEPT ![key] = value]
    /\ UNCHANGED <<tcb, cfg, how, derived, b, span, calls>>

NextShare ==
    \/ Staging /\ \E key \in { ENV.HIDE_INPUTS, ENV.HIDE_OUTPUTS },
                     value \in { <<"t","r","u","e">>, <<"0">> } : SetVar(key, value)
    \/ Staging /\ \E name \in { "hide_outputs", "hide_input_text" },
                     value \in BOOLEAN : SetBool(name, value)
    \/ Build
    \/ FromEnv
    \/ Default
    \/ \E key \in { ENV.HIDE_INPUTS, ENV.HIDE_OUTPUTS },
          value \in { None, Some(<<"t","r","u","e">>), Some(<<"0">>) } :
            ChangeVar(key, value)
    \/ how # "none" /\ Query
    \/ how # "none" /\ \E kind \in { "Llm", "Chain" } : new(kind, ExampleName(kind))
    \/ how # "none" /\ config(Unwrap(cfg))
    \/ \E value \in { "secret" } : input_value(value)
    \/ \E value \in { "secret" } : input(value)
    \/ build
    \/ \E value \in OutputContents : RecordOutputValue(value, Unwrap(cfg))
    \/ \E content \in OutputContents :
          RecordOutputMessage(0, "assistant", content, Unwrap(cfg))

SpecShare == InitConfig /\ [][NextShare]_vars

\* C26: a TraceConfig is an immutable snapshot.  Its construction (from_env,
\* or TraceConfigBuilder::build) resolves it from the environment as it then
\* is; from then on no step (a change of an environment variable, a query, a
\* builder's config and build, a recording call that uses it) changes any of
\* its fields, and the answers of the should_hide_* queries, whenever they are
\* asked, are the OR-expressions over those fields.
C26_ConfigIsAnImmutableSnapshot ==
    [][ /\ how = "none" => cfg = None
        /\ how' = "from_env" /\ how = "none" => cfg' = Some(from_env(env))
        /\ how' = "build" /\ how = "none" => cfg' = Some(TraceConfigBuilder_build(tcb, env))
        /\ how # "none" => cfg' = cfg /\ how' = how /\ IsSome(cfg)
        /\ IsSome(derived') =>
              LET c == Unwrap(cfg')
                  d == Unwrap(derived')
              IN  /\ d.input_messages = (c.hide_inputs \/ c.hide_input_messages)
                  /\ d.output_messages = (c.hide_outputs \/ c.hide_output_messages)
                  /\ d.input_text = (c.hide_inputs \/ c.hide_input_messages \/ c.hide_input_text)
                  /\ d.output_text = (c.hide_outputs \/ c.hide_output_messages \/ c.hide_output_text)
                  /\ d.input_images = (c.hide_inputs \/ c.hide_input_messages \/ c.hide_input_images)
                  /\ d.prompts = (c.hide_inputs \/ c.hide_prompts)
                  /\ d.choices = (c.hide_outputs \/ c.hide_choices) ]_vars

\* a configuration read from an environment that hid the inputs, still hiding
\* them after the variable was removed, a query was answered and a span was
\* built and recorded on
C26_Witness ==
    /\ how = "from_env"
    /\ IsSome(cfg) /\ Unwrap(cfg).hide_inputs
    /\ env[ENV.HIDE_INPUTS] = None
    /\ IsSome(derived) /\ Unwrap(derived).input_messages
    /\ IsSome(span)
    /\ calls # <<>>

(***************************************************************************)
(* Properties of the builders and the recording functions together         *)
(***************************************************************************)
\* configuration c with every hide switch off
Unhidden(c) == [ f \in ConfigFields |-> IF f \in HideFields THEN FALSE ELSE c[f] ]

\* C28: redaction replaces values and never adds or removes keys.  For every
\* builder kind and every set of accumulated fields, the keys of the built
\* span are the keys the same builder emits with every hide switch off
\* (emit_gen_ai_attributes unchanged), so they are the same for every
\* assignment of the hide switches; and each recording function that takes a
\* configuration, called on the span, writes the same keys under the
\* builder's configuration as with every hide switch off.
C28_RedactionKeepsTheKeys ==
    Built =>
        LET s == Unwrap(b)
            sp == Unwrap(span)
            c == s.config
            Keys(x) == DOMAIN x.attrs
        IN  /\ Keys(sp) = Keys(SpanBuilder_build([s EXCEPT !.config = Unhidden(c)]))
            /\ \A content \in OutputContents, index \in Indexes :
                  /\ Keys(record_output_message(sp, index, "assistant", content, c))
                       = Keys(record_output_message(sp, index, "assistant", content, Unhidden(c)))
                  /\ Keys(record_output_value(sp, content, c))
                       = Keys(record_output_value(sp, content, Unhidden(c)))
            /\ \A documents \in DocumentLists :
                  /\ Keys(record_retrieval_documents(sp, documents, c))
                       = Keys(record_retrieval_documents(sp, documents, Unhidden(c)))
                  /\ Keys(record_reranker_output_documents(sp, documents, c))
                       = Keys(record_reranker_output_documents(sp, documents, Unhidden(c)))

\* an LLM span built with every hide switch on from an input message and an
\* input value: its keys are there, with the marker for values
C28_Witness ==
    /\ Built
    /\ Unwrap(b).kind = "Llm"
    /\ \A f \in HideFields : Unwrap(b).config[f]
    /\ Len(Unwrap(b).input_messages) = 1
    /\ IsSome(Unwrap(b).input_value)
    /\ attributes.input.VALUE \in DOMAIN Unwrap(span).attrs
    /\ llm_input_messages_content(0) \in DOMAIN Unwrap(span).attrs

(***************************************************************************)
(* Properties of the document recording functions (SpecRecord)             *)
(***************************************************************************)
\* the key prefix of the documents a recording call writes
DocumentPrefix(call) ==
    IF call.op = "record_retrieval_documents"
    THEN "retrieval.documents." ELSE "reranker.output_documents."

\* the keys that describe the list D under prefix, and nothing more
DocumentKeys(prefix, D) ==
    UNION { { prefix \o ToString(i - 1) \o ".document.content" }
            \cup (IF IsSome(D[i].id)
                  THEN { prefix \o ToString(i - 1) \o ".document.id" } ELSE {})
            \cup (IF IsSome(D[i].score)
                  THEN { prefix \o ToString(i - 1) \o ".document.score" } ELSE {}) :
            i \in 1..Len(D) }

\* the attributes attrs hold list D under prefix, as configuration c shows it
DescribesDocuments(attrs, prefix, D, c) ==
    \A i \in 1..Len(D) :
        LET key(field) == prefix \o ToString(i - 1) \o ".document." \o field
        IN  /\ key("content") \in DOMAIN attrs
            /\ attrs[key("content")] =
                  <<"String", IF c.hide_outputs THEN "__REDACTED__" ELSE D[i].content>>
            /\ IsSome(D[i].id) =>
                  key("id") \in DOMAIN attrs /\ attrs[key("id")] = <<"String", D[i].id[1]>>
            /\ IsSome(D[i].score) =>
                  key("score") \in DOMAIN attrs /\ attrs[key("score")] = <<"F64", D[i].score[1]>>

\* C29 as stated: after record_retrieval_documents(span, D, config), and
\* likewise record_reranker_output_documents, the indexed document attributes
\* on the span describe exactly the list D, whatever earlier calls recorded:
\* no document attribute at an index >= |D|, and no id or score attribute at
\* index i when D[i] has no id or no score.
C29_DocumentsAreExactlyTheList ==
    /\ IsSome(span) /\ calls # <<>>
    /\ LastCall.op \in { "record_retrieval_documents", "record_reranker_output_documents" }
    => /\ DescribesDocuments(Unwrap(span).attrs, DocumentPrefix(LastCall),
                             LastCall.documents, LastCall.config)
       /\ GroupKeys(DocumentPrefix(LastCall))
            = DocumentKeys(DocumentPrefix(LastCall), LastCall.documents)

\* C29 amended: record_retrieval_documents(span, D, config), and likewise
\* record_reranker_output_documents, writes the attributes of D and nothing
\* else.  After the call the attributes at every index i < |D| hold D[i]
\* (content or marker, id and score when D[i] has them), and every other
\* attribute of the span, the document attributes of earlier calls at an
\* index >= |D| and their ids and scores included, is as it was before the
\* call.  On a span that had no such document attribute the document
\* attributes describe exactly D.
C29_DocumentsAreWrittenOverWhatIsThere ==
    [][ /\ calls' # calls
        /\ calls'[Len(calls')].op \in
              { "record_retrieval_documents", "record_reranker_output_documents" }
        => LET call == calls'[Len(calls')]
               prefix == DocumentPrefix(call)
               written == DocumentKeys(prefix, call.documents)
               before == Unwrap(span).attrs
               after == Unwrap(span').attrs
           IN  /\ DescribesDocuments(after, prefix, call.documents, call.config)
               /\ DOMAIN after = DOMAIN before \cup written
               /\ \A k \in DOMAIN before \ written : after[k] = before[k]
               /\ GroupKeys(prefix) = {} =>
                     { k \in DOMAIN after : StartsWith(k, prefix) } = written ]_vars

\* two retrieved documents recorded and then one: the second document of the
\* first call and the score of its first document are still on the span
C29_Witness ==
    /\ IsSome(span) /\ Len(calls) = 2
    /\ calls[1].op = "record_retrieval_documents" /\ Len(calls[1].documents) = 2
    /\ calls[2].op = "record_retrieval_documents" /\ Len(calls[2].documents) = 1
    /\ ~IsSome(calls[2].documents[1].score)
    /\ Holds("retrieval.documents.0.document.id", <<"String", "doc-2">>)
    /\ Holds("retrieval.documents.0.document.score", <<"F64", "0.9">>)
    /\ "retrieval.documents.1.document.content" \in DOMAIN Unwrap(span).attrs

(***************************************************************************)
(* Specification SpecRace: record_output_message called by concurrent      *)
(* writers of one span (record_output_message takes &Span, and the         *)
(* functions add no lock).  A call is two sink writes, the role and then   *)
(* the content; the writes of the calls in flight interleave.  calls keeps *)
(* each call with its arguments and its position pc: "role" before the     *)
(* first write, "content" before the second, "returned" after it.          *)
(***************************************************************************)
\* record_output_message(span, index, role, content, c) is entered
RecordOutputMessageEntered(index, role, content, c) ==
    /\ IsSome(span)
    /\ Len(calls) < MaxRecords
    /\ calls' = Append(calls, [ op |-> "record_output_message", index |-> index,
                                role |-> role, content |-> content, config |-> c,
                                pc |-> "role" ])
    /\ UNCHANGED <<b, span>>
    /\ ConfigIdle

\* call n writing the role and the content in one step
RecordOutputMessageSetsBoth(n) ==
    /\ n \in 1..Len(calls)
    /\ calls[n].pc = "role"
    /\ span' = Some(record_output_message(Unwrap(span), calls[n].index, calls[n].role,
                                          calls[n].content, calls[n].config))
    /\ calls' = [calls EXCEPT ![n].pc = "returned"]
    /\ UNCHANGED b
    /\ ConfigIdle

\* the next span.set_attribute of call n
RecordOutputMessageSetsAttribute(n) ==
    /\ n \in 1..Len(calls)
    /\ calls[n].pc # "returned"
    /\ LET call == calls[n]
           hide_messages == should_hide_output_messages(call.config)
           hide_text == should_hide_output_text(call.config)
           sp == Unwrap(span)
       IN  IF call.pc = "role"
           THEN /\ span' = Some([sp EXCEPT !.attrs =
                          set_attribute(@, llm_output_messages_role(call.index),
                                        IF hide_messages THEN String(REDACTED)
                                        ELSE String(call.role))])
                /\ calls' = [calls EXCEPT ![n].pc = "content"]
           ELSE /\ span' = Some([sp EXCEPT !.attrs =
                          set_attribute(@, llm_output_messages_content(call.index),
                                        IF hide_messages \/ hide_text THEN String(REDACTED)
                                        ELSE String(call.content))])
                /\ calls' = [calls EXCEPT ![n].pc = "returned"]
    /\ UNCHANGED b
    /\ ConfigIdle

NextRace ==
    \/ \E role \in { "assistant", "tool" }, c \in Supplied :
          RecordOutputMessageEntered(0, role, "secret", c)
    \/ \E n \in 1..MaxRecords : RecordOutputMessageSetsAttribute(n)

SpecRace == InitRecord /\ [][NextRace]_vars

\* the role and the content that a record_output_message call writes
RoleWritten(call) ==
    IF call.config.hide_outputs \/ call.config.hide_output_messages
    THEN "__REDACTED__" ELSE call.role

ContentWritten(call) ==
    IF \/ call.config.hide_outputs \/ call.config.hide_output_messages
       \/ call.config.hide_output_text
    THEN "__REDACTED__" ELSE call.content

\* C30 as stated: when two record_output_message calls for the same message
\* index run concurrently on the same span, then once both have completed
\* the role attribute and the content attribute at that index come from the
\* same call, with the same redaction decision: no interleaving leaves the
\* role of one call next to the content of the other.
C30_RoleAndContentFromTheSameCall ==
    /\ IsSome(span) /\ Len(calls) >= 2
    /\ \A n \in 1..Len(calls) : calls[n].pc = "returned"
    => \E n \in 1..Len(calls) :
          /\ Holds("llm.output_messages.0.message.role", <<"String", RoleWritten(calls[n])>>)
          /\ Holds("llm.output_messages.0.message.content",
                   <<"String", ContentWritten(calls[n])>>)

\* C30 amended: concurrent record_output_message calls for the same message
\* index are not serialized.  Each call writes the role attribute and then
\* the content attribute, each write sets its one key to the call's value
\* (the marker where the call's configuration hides it) and leaves every
\* other attribute as it is, so each key holds what the last write to it
\* wrote; once the calls have completed, the role is the role written by one
\* of the calls and the content the content written by one of the calls,
\* which may be two different calls.
C30_LastWriteWinsPerKey ==
    [][ /\ \A n \in 1..Len(calls) :
              calls'[n].pc # calls[n].pc =>
                  LET call == calls[n]
                      key == IF call.pc = "role"
                             THEN "llm.output_messages.0.message.role"
                             ELSE "llm.output_messages.0.message.content"
                      value == IF call.pc = "role"
                               THEN RoleWritten(call) ELSE ContentWritten(call)
                      before == Unwrap(span).attrs
                      after == Unwrap(span').attrs
                  IN  /\ calls'[n].pc = IF call.pc = "role" THEN "content" ELSE "returned"
                      /\ DOMAIN after = DOMAIN before \cup { key }
                      /\ after[key] = <<"String", value>>
                      /\ \A k \in DOMAIN before \ { key } : after[k] = before[k]
        /\ (calls' # <<>> /\ \A n \in 1..Len(calls') : calls'[n].pc = "returned") =>
              LET after == Unwrap(span').attrs
              IN  /\ \E n \in 1..Len(calls') :
                        after["llm.output_messages.0.message.role"]
                            = <<"String", RoleWritten(calls'[n])>>
                  /\ \E n \in 1..Len(calls') :
                        after["llm.output_messages.0.message.content"]
                            = <<"String", ContentWritten(calls'[n])>> ]_vars

\* two calls have completed, the first with hide_outputs and the second
\* without: the role is the second call's, next to the marker that the first
\* call wrote for the content
C30_Witness ==
    /\ IsSome(span) /\ Len(calls) = 2
    /\ calls[1].pc = "returned" /\ calls[2].pc = "returned"
    /\ calls[1].config.hide_outputs /\ ~calls[2].config.hide_outputs
    /\ calls[2].role = "tool" /\ calls[2].content = "secret"
    /\ Holds("llm.output_messages.0.message.role", <<"String", "tool">>)
    /\ Holds("llm.output_messages.0.message.content", <<"String", "__REDACTED__">>)

====
